---- MODULE Spec2Model ----
(***************************************************************************)
(* A model of the hallucination detector of src/script.js: the request     *)
(* lifecycle of analyzeContent (validation, the race of the backend call   *)
(* against the 30 s timer, the display), the backend selection of          *)
(* callHallucinationAPI (external classifier first, local analysis as the  *)
(* fallback), and the local scoring engine (four analyzers, aggregation,   *)
(* score bands).                                                           *)
(*                                                                         *)
(* A text is a sequence of one-character strings, so that the substring    *)
(* tests, the splits and the regular expressions of the source are         *)
(* computed on characters, as the source computes them.                    *)
(***************************************************************************)
EXTENDS Integers, Sequences, FiniteSets, TLC

(***************************************************************************)
(* Characters                                                              *)
(***************************************************************************)

\* The characters /\s/ matches, among those the model's texts use.
Whitespace == {" ", "\n"}

\* The characters of /[.!?]/.
SentenceEnd == {".", "!", "?"}

\* /\d/
Digits == {"0", "1", "2", "3", "4", "5", "6", "7", "8", "9"}

\* /[a-z]/
LowerLetters ==
  {"a", "b", "c", "d", "e", "f", "g", "h", "i", "j", "k", "l", "m",
   "n", "o", "p", "q", "r", "s", "t", "u", "v", "w", "x", "y", "z"}

\* /[A-Z]/
UpperLetters ==
  {"A", "B", "C", "D", "E", "F", "G", "H", "I", "J", "K", "L", "M",
   "N", "O", "P", "Q", "R", "S", "T", "U", "V", "W", "X", "Y", "Z"}

\* /[a-zA-Z]/
Letters == LowerLetters \cup UpperLetters

\* /[aeiouy]/i
Vowels == {"a", "e", "i", "o", "u", "y", "A", "E", "I", "O", "U", "Y"}

\* /\w/ : the characters that make a word for the \b of a regular expression.
WordChars == Letters \cup Digits \cup {"_"}

\* String.prototype.toLowerCase on one character.
lowerOf ==
  ("A" :> "a") @@ ("B" :> "b") @@ ("C" :> "c") @@ ("D" :> "d") @@ ("E" :> "e") @@
  ("F" :> "f") @@ ("G" :> "g") @@ ("H" :> "h") @@ ("I" :> "i") @@ ("J" :> "j") @@
  ("K" :> "k") @@ ("L" :> "l") @@ ("M" :> "m") @@ ("N" :> "n") @@ ("O" :> "o") @@
  ("P" :> "p") @@ ("Q" :> "q") @@ ("R" :> "r") @@ ("S" :> "s") @@ ("T" :> "t") @@
  ("U" :> "u") @@ ("V" :> "v") @@ ("W" :> "w") @@ ("X" :> "x") @@ ("Y" :> "y") @@
  ("Z" :> "z")

(***************************************************************************)
(* Strings.  Every operator is written without recursion on the characters *)
(* (sets of positions instead), so that a text of more than 1000           *)
(* characters is evaluated as any other.                                   *)
(***************************************************************************)

\* A sequence given as a function on 1..n, as a tuple.
AsSeq(f) == f \o <<>>

\* String.prototype.toLowerCase
toLowerCase(s) ==
  AsSeq([i \in 1..Len(s) |-> IF s[i] \in UpperLetters THEN lowerOf[s[i]] ELSE s[i]])

\* trim leaving s as it is, the slip C17 is there to tell apart.
trimNothing(s) == s

\* String.prototype.trim: s without the whitespace it starts and ends with.
trim(s) ==
  LET n        == Len(s)
      leading  == {i \in 1..n : \A j \in 1..i : s[j] \in Whitespace}
      trailing == {i \in 1..n : \A j \in i..n : s[j] \in Whitespace}
  IN  SubSeq(s, Cardinality(leading) + 1, n - Cardinality(trailing))

\* Whether p occurs in s from position i on.
MatchesAt(s, p, i) ==
  /\ i + Len(p) - 1 <= Len(s)
  /\ \A j \in 1..Len(p) : s[i + j - 1] = p[j]

\* String.prototype.includes
includes(s, p) == \E i \in 1..(Len(s) - Len(p) + 1) : MatchesAt(s, p, i)

\* The number of characters of s that are c.
CountChar(s, c) == Cardinality({i \in 1..Len(s) : s[i] = c})

\* The k-th smallest element of a set of numbers.
Kth(S, k) == CHOOSE i \in S : Cardinality({j \in S : j < i}) = k - 1

\* The first and the last positions of the maximal runs of s made of
\* characters outside Sep.
PieceStarts(s, Sep) ==
  {i \in 1..Len(s) : s[i] \notin Sep /\ (i = 1 \/ s[i - 1] \in Sep)}

PieceEnds(s, Sep) ==
  {i \in 1..Len(s) : s[i] \notin Sep /\ (i = Len(s) \/ s[i + 1] \in Sep)}

\* String.prototype.split(/[Sep]+/): the pieces of s between the maximal runs
\* of separators.  A separator at the start (at the end) of s gives an empty
\* first (last) piece, and the empty string splits into one empty piece.
split(s, Sep) ==
  LET st   == PieceStarts(s, Sep)
      en   == PieceEnds(s, Sep)
      core == AsSeq([k \in 1..Cardinality(st) |-> SubSeq(s, Kth(st, k), Kth(en, k))])
  IN  IF Len(s) = 0 THEN << <<>> >>
      ELSE (IF s[1] \in Sep THEN << <<>> >> ELSE <<>>)
           \o core
           \o (IF s[Len(s)] \in Sep THEN << <<>> >> ELSE <<>>)

\* Array.prototype.reduce((a, b) => a + b, 0) over seq[lo..hi], by halves.
RECURSIVE sumRange(_, _, _)
sumRange(seq, lo, hi) ==
  IF lo > hi THEN 0
  ELSE IF lo = hi THEN seq[lo]
  ELSE LET mid == (lo + hi) \div 2
       IN  sumRange(seq, lo, mid) + sumRange(seq, mid + 1, hi)

sum(seq) == sumRange(seq, 1, Len(seq))

\* Math.min, Math.max
Min(a, b) == IF a <= b THEN a ELSE b

Max(a, b) == IF a >= b THEN a ELSE b

(***************************************************************************)
(* The lexicons of the analyzers, as the source lists them (an entry       *)
(* listed twice is twice in the list).                                     *)
(***************************************************************************)

aiPatterns ==
  <<
    <<"f","u","r","t","h","e","r","m","o","r","e">>,
    <<"m","o","r","e","o","v","e","r">>,
    <<"a","d","d","i","t","i","o","n","a","l","l","y">>,
    <<"i","n"," ","c","o","n","c","l","u","s","i","o","n">>,
    <<"t","o"," ","s","u","m","m","a","r","i","z","e">>,
    <<"i","t"," ","i","s"," ","i","m","p","o","r","t","a","n","t"," ","t","o"," ","n","o","t","e">>,
    <<"i","t"," ","s","h","o","u","l","d"," ","b","e"," ","m","e","n","t","i","o","n","e","d">>,
    <<"a","s"," ","p","r","e","v","i","o","u","s","l","y"," ","s","t","a","t","e","d">>,
    <<"i","n"," ","t","e","r","m","s"," ","o","f">>,
    <<"w","i","t","h"," ","r","e","g","a","r","d"," ","t","o">>,
    <<"i","n"," ","t","h","e"," ","c","o","n","t","e","x","t"," ","o","f">>,
    <<"i","t"," ","i","s"," ","w","o","r","t","h"," ","n","o","t","i","n","g">>,
    <<"o","n"," ","t","h","e"," ","o","t","h","e","r"," ","h","a","n","d">>,
    <<"c","o","n","v","e","r","s","e","l","y">>,
    <<"n","e","v","e","r","t","h","e","l","e","s","s">>,
    <<"h","o","w","e","v","e","r">>,
    <<"i","n"," ","l","i","g","h","t"," ","o","f">>,
    <<"c","o","n","s","i","d","e","r","i","n","g">>,
    <<"g","i","v","e","n"," ","t","h","a","t">>,
    <<"a","s"," ","s","u","c","h">>,
    <<"t","h","e","r","e","f","o","r","e">>,
    <<"t","h","u","s">>,
    <<"h","e","n","c","e">>,
    <<"c","o","n","s","e","q","u","e","n","t","l","y">>,
    <<"a","c","c","o","r","d","i","n","g","l","y">>,
    <<"s","u","b","s","e","q","u","e","n","t","l","y">>,
    <<"m","e","a","n","w","h","i","l","e">>,
    <<"f","u","r","t","h","e","r">>,
    <<"m","o","r","e","o","v","e","r">>,
    <<"b","e","s","i","d","e","s">>,
    <<"l","i","k","e","w","i","s","e">>,
    <<"s","i","m","i","l","a","r","l","y">>,
    <<"i","n"," ","a","d","d","i","t","i","o","n">>,
    <<"n","o","t"," ","o","n","l","y">>,
    <<"b","u","t"," ","a","l","s","o">>,
    <<"a","s"," ","w","e","l","l"," ","a","s">>,
    <<"i","n"," ","o","r","d","e","r"," ","t","o">>,
    <<"s","o"," ","a","s"," ","t","o">>,
    <<"w","i","t","h"," ","t","h","e"," ","a","i","m"," ","o","f">>,
    <<"f","o","r"," ","t","h","e"," ","p","u","r","p","o","s","e"," ","o","f">>,
    <<"i","t"," ","c","a","n"," ","b","e"," ","a","r","g","u","e","d">>,
    <<"i","t"," ","i","s"," ","e","v","i","d","e","n","t">>,
    <<"i","t"," ","i","s"," ","c","l","e","a","r">>,
    <<"i","t"," ","i","s"," ","o","b","v","i","o","u","s">>,
    <<"a","s"," ","a"," ","r","e","s","u","l","t">>,
    <<"d","u","e"," ","t","o">>,
    <<"b","e","c","a","u","s","e"," ","o","f">>,
    <<"o","w","i","n","g"," ","t","o">>,
    <<"t","h","a","n","k","s"," ","t","o">>
  >>

hedgingWords ==
  <<
    <<"m","i","g","h","t">>,
    <<"c","o","u","l","d">>,
    <<"p","o","s","s","i","b","l","y">>,
    <<"p","e","r","h","a","p","s">>,
    <<"m","a","y","b","e">>,
    <<"s","e","e","m","s">>,
    <<"a","p","p","e","a","r","s">>,
    <<"l","i","k","e","l","y">>,
    <<"p","r","o","b","a","b","l","y">>,
    <<"p","o","t","e","n","t","i","a","l","l","y">>,
    <<"a","r","g","u","a","b","l","y">>,
    <<"p","r","e","s","u","m","a","b","l","y">>,
    <<"s","u","p","p","o","s","e","d","l","y">>,
    <<"a","l","l","e","g","e","d","l","y">>
  >>

formalPatterns ==
  <<
    <<"i","n"," ","a","c","c","o","r","d","a","n","c","e"," ","w","i","t","h">>,
    <<"p","u","r","s","u","a","n","t"," ","t","o">>,
    <<"w","i","t","h"," ","r","e","s","p","e","c","t"," ","t","o">>,
    <<"i","n"," ","r","e","l","a","t","i","o","n"," ","t","o">>,
    <<"i","n"," ","r","e","f","e","r","e","n","c","e"," ","t","o">>,
    <<"i","n"," ","r","e","g","a","r","d"," ","t","o">>,
    <<"a","s"," ","p","e","r">>,
    <<"p","e","r","t","a","i","n","i","n","g"," ","t","o">>,
    <<"c","o","n","c","e","r","n","i","n","g">>,
    <<"r","e","g","a","r","d","i","n","g">>
  >>

emotionalWords ==
  <<
    <<"a","m","a","z","i","n","g">>,
    <<"i","n","c","r","e","d","i","b","l","e">>,
    <<"f","a","n","t","a","s","t","i","c">>,
    <<"t","e","r","r","i","b","l","e">>,
    <<"h","o","r","r","i","b","l","e">>,
    <<"w","o","n","d","e","r","f","u","l">>,
    <<"e","x","c","e","l","l","e","n","t">>,
    <<"o","u","t","s","t","a","n","d","i","n","g">>,
    <<"r","e","m","a","r","k","a","b","l","e">>,
    <<"e","x","t","r","a","o","r","d","i","n","a","r","y">>,
    <<"p","h","e","n","o","m","e","n","a","l">>,
    <<"s","p","e","c","t","a","c","u","l","a","r">>
  >>

descriptiveWords ==
  <<
    <<"c","o","m","p","r","e","h","e","n","s","i","v","e">>,
    <<"t","h","o","r","o","u","g","h">>,
    <<"d","e","t","a","i","l","e","d">>,
    <<"e","x","t","e","n","s","i","v","e">>,
    <<"e","l","a","b","o","r","a","t","e">>,
    <<"c","o","m","p","r","e","h","e","n","s","i","v","e">>,
    <<"s","y","s","t","e","m","a","t","i","c">>,
    <<"m","e","t","h","o","d","i","c","a","l">>,
    <<"r","i","g","o","r","o","u","s">>,
    <<"m","e","t","i","c","u","l","o","u","s">>
  >>

\* lexiconHits with every occurrence of an entry counted, the slip C12 is
\* there to tell apart.
lexiconHitsOccurrences(lexicon, text) ==
  Cardinality({<<k, i>> \in (1..Len(lexicon)) \X (1..Len(text)) :
                 MatchesAt(text, lexicon[k], i)})

\* The number of entries of a lexicon that occur in the text:
\* lexicon.filter(p => text.includes(p)).length
lexiconHits(lexicon, text) ==
  Cardinality({k \in 1..Len(lexicon) : includes(text, lexicon[k])})

(***************************************************************************)
(* Factors.  A factor is the tuple of its text and, where the source       *)
(* formats a count into it, that count.                                    *)
(***************************************************************************)

Factor(text) == <<text>>

FactorN(text, n) == <<text, n>>

\* The words of a text: text.toLowerCase().split(/\s+/)
wordsOf(content) == split(toLowerCase(content), Whitespace)

\* The sentences of a text:
\* content.split(/[.!?]+/).filter(s => s.trim().length > 0)
sentencesOf(content) ==
  LET pieces == split(content, SentenceEnd)
      keep   == {k \in 1..Len(pieces) : Len(trim(pieces[k])) > 0}
  IN  AsSeq([j \in 1..Cardinality(keep) |-> pieces[Kth(keep, j)]])

\* The number of words of a piece of text: s.split(/\s+/).length
wordCount(s) == Len(split(s, Whitespace))

\* lengths.reduce(...) / lengths.length and the variance computed from it,
\* compared with a bound: variance < bound.  With n lengths of sum S the
\* variance is (sum of (n*l - S)^2) / n^3; no length gives NaN, and NaN is
\* smaller than nothing.
varianceBelow(lengths, bound) ==
  LET n  == Len(lengths)
      S  == sum(lengths)
      sq == AsSeq([k \in 1..n |-> (n * lengths[k] - S) * (n * lengths[k] - S)])
  IN  n > 0 /\ sum(sq) < bound * n * n * n

(***************************************************************************)
(* analyzeLanguagePatterns                                                 *)
(***************************************************************************)

\* repetitivePhrases with the windows that occur exactly twice, the slip
\* C14 is there to tell apart.
repetitivePhrasesTwice(words) ==
  LET starts    == 1..(Len(words) - 2)
      phrase(i) == <<words[i], words[i + 1], words[i + 2]>>
  IN  Cardinality({phrase(i) : i \in {i \in starts :
                     Cardinality({j \in starts : phrase(j) = phrase(i)}) = 2}})

\* The 3-word windows that occur more than once:
\* Object.values(phraseCounts).filter(count => count > 1).length
repetitivePhrases(words) ==
  LET starts    == 1..(Len(words) - 2)
      phrase(i) == <<words[i], words[i + 1], words[i + 2]>>
  IN  Cardinality({phrase(i) : i \in {i \in starts :
                     \E j \in starts : j # i /\ phrase(j) = phrase(i)}})

\* analyzeLanguagePatterns with a single hedging word already counted, the
\* slip C24 is there to tell apart.
analyzeLanguagePatternsHedgingOnce(content) ==
  LET lower          == toLowerCase(content)
      words          == split(lower, Whitespace)
      aiPatternCount == lexiconHits(aiPatterns, lower)
      repetitive     == repetitivePhrases(words)
      hedgingCount   == lexiconHits(hedgingWords, lower)
      formalCount    == lexiconHits(formalPatterns, lower)
      s1 == IF aiPatternCount > 0 THEN Min(40, aiPatternCount * 8) ELSE 0
      f1 == IF aiPatternCount > 0
            THEN <<FactorN("AI-generated language patterns detected (N instances)",
                           aiPatternCount)>>
            ELSE <<>>
      s2 == IF repetitive > 1 THEN Min(35, repetitive * 5) ELSE 0
      f2 == IF repetitive > 1
            THEN <<FactorN("Repetitive language patterns found (N instances)",
                           repetitive)>>
            ELSE <<>>
      s3 == IF hedgingCount > 0 THEN Min(25, hedgingCount * 4) ELSE 0
      f3 == IF hedgingCount > 0
            THEN <<FactorN("Hedging language detected (N instances)", hedgingCount)>>
            ELSE <<>>
      s4 == IF formalCount > 0 THEN Min(20, formalCount * 6) ELSE 0
      f4 == IF formalCount > 0
            THEN <<FactorN("Formal academic language patterns detected (N instances)",
                           formalCount)>>
            ELSE <<>>
  IN  [score |-> s1 + s2 + s3 + s4, factors |-> f1 \o f2 \o f3 \o f4]

analyzeLanguagePatterns(content) ==
  LET lower          == toLowerCase(content)
      words          == split(lower, Whitespace)
      aiPatternCount == lexiconHits(aiPatterns, lower)
      repetitive     == repetitivePhrases(words)
      hedgingCount   == lexiconHits(hedgingWords, lower)
      formalCount    == lexiconHits(formalPatterns, lower)
      s1 == IF aiPatternCount > 0 THEN Min(40, aiPatternCount * 8) ELSE 0
      f1 == IF aiPatternCount > 0
            THEN <<FactorN("AI-generated language patterns detected (N instances)",
                           aiPatternCount)>>
            ELSE <<>>
      s2 == IF repetitive > 1 THEN Min(35, repetitive * 5) ELSE 0
      f2 == IF repetitive > 1
            THEN <<FactorN("Repetitive language patterns found (N instances)",
                           repetitive)>>
            ELSE <<>>
      s3 == IF hedgingCount > 1 THEN Min(25, hedgingCount * 4) ELSE 0
      f3 == IF hedgingCount > 1
            THEN <<FactorN("Hedging language detected (N instances)", hedgingCount)>>
            ELSE <<>>
      s4 == IF formalCount > 0 THEN Min(20, formalCount * 6) ELSE 0
      f4 == IF formalCount > 0
            THEN <<FactorN("Formal academic language patterns detected (N instances)",
                           formalCount)>>
            ELSE <<>>
  IN  [score |-> s1 + s2 + s3 + s4, factors |-> f1 \o f2 \o f3 \o f4]

(***************************************************************************)
(* analyzeStatisticalFeatures                                              *)
(***************************************************************************)

\* The distinct words longer than 2 characters used more than twice:
\* Object.entries(wordFreq).filter(([word, count]) => count > 2).length
highFreqWords(words) ==
  LET long == {k \in 1..Len(words) : Len(words[k]) > 2}
  IN  Cardinality({words[k] : k \in {k \in long :
                     Cardinality({j \in long : words[j] = words[k]}) > 2}})

\* The runs of /[.!?]+/ longer than one character:
\* (content.match(/[.!?]+/g) || []).filter(p => p.length > 1).length
unusualPunctuation(content) ==
  Cardinality({i \in 1..(Len(content) - 1) :
                 /\ content[i] \in SentenceEnd
                 /\ i = 1 \/ content[i - 1] \notin SentenceEnd
                 /\ content[i + 1] \in SentenceEnd})

\* content.split(/\n\s*\n/): a separator runs from the first to the last
\* line break of a run of whitespace that holds at least two of them.
paragraphsOf(content) ==
  LET n         == Len(content)
      runStarts == {i \in 1..n : content[i] \in Whitespace
                                 /\ (i = 1 \/ content[i - 1] \notin Whitespace)}
      runEnds   == {i \in 1..n : content[i] \in Whitespace
                                 /\ (i = n \/ content[i + 1] \notin Whitespace)}
      runEnd(a)   == CHOOSE b \in runEnds : b >= a /\ \A c \in runEnds : c >= a => b <= c
      breaks(a)   == {i \in a..runEnd(a) : content[i] = "\n"}
      seps        == {a \in runStarts : Cardinality(breaks(a)) >= 2}
      firstBrk(a) == CHOOSE i \in breaks(a) : \A j \in breaks(a) : i <= j
      lastBrk(a)  == CHOOSE i \in breaks(a) : \A j \in breaks(a) : j <= i
      m           == Cardinality(seps)
  IN  AsSeq([k \in 1..(m + 1) |->
               SubSeq(content,
                      IF k = 1 THEN 1 ELSE lastBrk(Kth(seps, k - 1)) + 1,
                      IF k = m + 1 THEN n ELSE firstBrk(Kth(seps, k)) - 1)])

analyzeStatisticalFeatures(content) ==
  LET words           == wordsOf(content)
      sentences       == sentencesOf(content)
      sentenceLengths == AsSeq([k \in 1..Len(sentences) |-> wordCount(sentences[k])])
      highFreq        == highFreqWords(words)
      paragraphs      == paragraphsOf(content)
      paragraphLengths ==
        AsSeq([k \in 1..Len(paragraphs) |-> wordCount(paragraphs[k])])
      c1 == varianceBelow(sentenceLengths, 15) /\ Len(sentenceLengths) > 3
      c2 == highFreq > 2
      c3 == unusualPunctuation(content) > 1
      c4 == Len(paragraphs) > 2 /\ varianceBelow(paragraphLengths, 20)
  IN  [score   |-> (IF c1 THEN 25 ELSE 0) + (IF c2 THEN 20 ELSE 0)
                   + (IF c3 THEN 15 ELSE 0) + (IF c4 THEN 18 ELSE 0),
       factors |->
         (IF c1 THEN <<Factor("Unusually consistent sentence lengths detected")>>
          ELSE <<>>)
         \o (IF c2
             THEN <<FactorN("High word repetition detected (N frequently used words)",
                            highFreq)>>
             ELSE <<>>)
         \o (IF c3 THEN <<Factor("Unusual punctuation patterns detected")>> ELSE <<>>)
         \o (IF c4 THEN <<Factor("Unusually consistent paragraph lengths detected")>>
             ELSE <<>>)]

(***************************************************************************)
(* analyzeSemanticFeatures                                                 *)
(***************************************************************************)

\* The number of digits of s from position i on: the greedy \d+ at i.
digitRun(s, i) ==
  LET stops == {j \in i..Len(s) : s[j] \notin Digits}
  IN  IF stops = {} THEN Len(s) - i + 1
      ELSE (CHOOSE j \in stops : \A k \in stops : j <= k) - i

IsDigitAt(s, i) == i >= 1 /\ i <= Len(s) /\ s[i] \in Digits

IsCharAt(s, i, c) == i >= 1 /\ i <= Len(s) /\ s[i] = c

\* The length of what \d{1,2}<c>\d{1,2} matches at i (0: no match): two
\* digits before c are tried before one, and two digits after c before one.
shortDatePair(s, i, c) ==
  IF IsDigitAt(s, i) /\ IsDigitAt(s, i + 1) /\ IsCharAt(s, i + 2, c) /\ IsDigitAt(s, i + 3)
  THEN (IF IsDigitAt(s, i + 4) THEN 5 ELSE 4)
  ELSE IF IsDigitAt(s, i) /\ IsCharAt(s, i + 1, c) /\ IsDigitAt(s, i + 2)
  THEN (IF IsDigitAt(s, i + 3) THEN 4 ELSE 3)
  ELSE 0

\* The length of what /\d{4}|\d{1,2}\/\d{1,2}|\d{1,2}-\d{1,2}|\d+%|\d+\.\d+/
\* matches at position i (0: no match): the first alternative that matches.
factualClaimAt(s, i) ==
  LET d == digitRun(s, i)
  IN  IF ~IsDigitAt(s, i) THEN 0
      ELSE IF d >= 4 THEN 4
      ELSE IF shortDatePair(s, i, "/") > 0 THEN shortDatePair(s, i, "/")
      ELSE IF shortDatePair(s, i, "-") > 0 THEN shortDatePair(s, i, "-")
      ELSE IF IsCharAt(s, i + d, "%") THEN d + 1
      ELSE IF IsCharAt(s, i + d, ".") /\ IsDigitAt(s, i + d + 1)
      THEN d + 1 + digitRun(s, i + d + 1)
      ELSE 0

\* content.match(/.../g).length from position i on: the matches are found
\* from left to right, each search starting where the last match ended.
RECURSIVE factualClaimsFrom(_, _)
factualClaimsFrom(s, i) ==
  LET hits == {p \in i..Len(s) : factualClaimAt(s, p) > 0}
      p    == CHOOSE q \in hits : \A r \in hits : q <= r
  IN  IF hits = {} THEN 0
      ELSE 1 + factualClaimsFrom(s, p + factualClaimAt(s, p))

factualClaims(content) == factualClaimsFrom(content, 1)

\* (content.match(/\b[A-Z]{2,}\b|\b[a-z]+[A-Z][a-z]+\b/g) || []).length.
\* Both alternatives start and end at a word boundary and hold word
\* characters only, so a match is a whole run of word characters: one of two
\* or more capitals, or one of small letters around a single capital.
technicalTerms(content) ==
  LET n      == Len(content)
      starts == {i \in 1..n : content[i] \in WordChars
                              /\ (i = 1 \/ content[i - 1] \notin WordChars)}
      ends   == {i \in 1..n : content[i] \in WordChars
                              /\ (i = n \/ content[i + 1] \notin WordChars)}
      endOf(a) == CHOOSE b \in ends : b >= a /\ \A c \in ends : c >= a => b <= c
      acronym(a, b) == b - a + 1 >= 2 /\ \A k \in a..b : content[k] \in UpperLetters
      camel(a, b) ==
        \E u \in (a + 1)..(b - 1) :
          /\ content[u] \in UpperLetters
          /\ \A k \in a..b : k # u => content[k] \in LowerLetters
  IN  Cardinality({a \in starts : acronym(a, endOf(a)) \/ camel(a, endOf(a))})

\* analyzeSemanticFeatures with no cap on what the factual claims add, the
\* slip C26 is there to tell apart.
analyzeSemanticFeaturesUncapped(content) ==
  LET lower            == toLowerCase(content)
      claims           == factualClaims(content)
      terms            == technicalTerms(content)
      emotionalCount   == lexiconHits(emotionalWords, lower)
      descriptiveCount == lexiconHits(descriptiveWords, lower)
      c1 == claims > 2
      c2 == terms > 4
      c3 == emotionalCount > 1
      c4 == descriptiveCount > 0
  IN  [score   |-> (IF c1 THEN claims * 4 ELSE 0)
                   + (IF c2 THEN 18 ELSE 0)
                   + (IF c3 THEN Min(20, emotionalCount * 5) ELSE 0)
                   + (IF c4 THEN Min(15, descriptiveCount * 5) ELSE 0),
       factors |->
         (IF c1 THEN <<FactorN("Multiple factual claims detected (N instances)", claims)>>
          ELSE <<>>)
         \o (IF c2 THEN <<Factor("High technical jargon usage detected")>> ELSE <<>>)
         \o (IF c3 THEN <<Factor("High emotional language usage detected")>> ELSE <<>>)
         \o (IF c4 THEN <<Factor("Overly descriptive language detected")>> ELSE <<>>)]

analyzeSemanticFeatures(content) ==
  LET lower            == toLowerCase(content)
      claims           == factualClaims(content)
      terms            == technicalTerms(content)
      emotionalCount   == lexiconHits(emotionalWords, lower)
      descriptiveCount == lexiconHits(descriptiveWords, lower)
      c1 == claims > 2
      c2 == terms > 4
      c3 == emotionalCount > 1
      c4 == descriptiveCount > 0
  IN  [score   |-> (IF c1 THEN Min(25, claims * 4) ELSE 0)
                   + (IF c2 THEN 18 ELSE 0)
                   + (IF c3 THEN Min(20, emotionalCount * 5) ELSE 0)
                   + (IF c4 THEN Min(15, descriptiveCount * 5) ELSE 0),
       factors |->
         (IF c1 THEN <<FactorN("Multiple factual claims detected (N instances)", claims)>>
          ELSE <<>>)
         \o (IF c2 THEN <<Factor("High technical jargon usage detected")>> ELSE <<>>)
         \o (IF c3 THEN <<Factor("High emotional language usage detected")>> ELSE <<>>)
         \o (IF c4 THEN <<Factor("Overly descriptive language detected")>> ELSE <<>>)]

(***************************************************************************)
(* analyzeReadabilityFeatures                                              *)
(***************************************************************************)

\* The syllables estimateSyllables counts for one word: 1 for a word of at
\* most 3 letters, else the number of runs of vowels among its letters
\* (the other characters are removed first), at least 1.
syllablesOf(word) ==
  LET letterAt == {i \in 1..Len(word) : word[i] \in Letters}
      prev(i)  == {j \in letterAt : j < i}
      groups   == {i \in letterAt :
                     /\ word[i] \in Vowels
                     /\ \/ prev(i) = {}
                        \/ word[CHOOSE j \in prev(i) : \A k \in prev(i) : k <= j]
                             \notin Vowels}
  IN  IF Cardinality(letterAt) <= 3 THEN 1 ELSE Max(1, Cardinality(groups))

\* The total of the syllables of the words: estimateSyllables returns this
\* total divided by words.length.
totalSyllables(words) == sum(AsSeq([k \in 1..Len(words) |-> syllablesOf(words[k])]))

\* The sentences of more than 25 words or of 3 commas and more:
\* sentenceWords.length > 25 || s.includes(',') && s.split(',').length > 3
complexSentences(sentences) ==
  Cardinality({k \in 1..Len(sentences) :
                 \/ wordCount(sentences[k]) > 25
                 \/ /\ CountChar(sentences[k], ",") > 0
                    /\ CountChar(sentences[k], ",") + 1 > 3})

\* analyzeReadabilityFeatures with the factor of the complex structure
\* pushed and nothing added for it, the slip C30 is there to tell apart.
analyzeReadabilityFeaturesFactorOnly(content) ==
  LET words     == wordsOf(content)
      sentences == sentencesOf(content)
      W         == Len(words)
      m         == Len(sentences)
      syllables == totalSyllables(words)
      unique    == Cardinality({words[k] : k \in {k \in 1..W : Len(words[k]) > 2}})
      complex   == complexSentences(sentences)
      \* words.length / sentences.length > 20 (a division by 0 gives Infinity)
      \* || totalSyllables / words.length > 1.6
      c1 == \/ (IF m = 0 THEN W > 0 ELSE W > 20 * m)
            \/ 10 * syllables > 16 * W
      \* uniqueWords.size / words.length < 0.4 && words.length > 30
      c2 == 10 * unique < 4 * W /\ W > 30
      c3 == complex > 1
  IN  [score   |-> 0 + (IF c2 THEN 18 ELSE 0)
                   + (IF c3 THEN Min(15, complex * 5) ELSE 0),
       factors |->
         (IF c1 THEN <<Factor("Complex sentence structure detected")>> ELSE <<>>)
         \o (IF c2 THEN <<Factor("Low vocabulary diversity detected")>> ELSE <<>>)
         \o (IF c3
             THEN <<FactorN("Complex sentence structures detected (N instances)",
                            complex)>>
             ELSE <<>>)]

analyzeReadabilityFeatures(content) ==
  LET words     == wordsOf(content)
      sentences == sentencesOf(content)
      W         == Len(words)
      m         == Len(sentences)
      syllables == totalSyllables(words)
      unique    == Cardinality({words[k] : k \in {k \in 1..W : Len(words[k]) > 2}})
      complex   == complexSentences(sentences)
      \* words.length / sentences.length > 20 (a division by 0 gives Infinity)
      \* || totalSyllables / words.length > 1.6
      c1 == \/ (IF m = 0 THEN W > 0 ELSE W > 20 * m)
            \/ 10 * syllables > 16 * W
      \* uniqueWords.size / words.length < 0.4 && words.length > 30
      c2 == 10 * unique < 4 * W /\ W > 30
      c3 == complex > 1
  IN  [score   |-> (IF c1 THEN 20 ELSE 0) + (IF c2 THEN 18 ELSE 0)
                   + (IF c3 THEN Min(15, complex * 5) ELSE 0),
       factors |->
         (IF c1 THEN <<Factor("Complex sentence structure detected")>> ELSE <<>>)
         \o (IF c2 THEN <<Factor("Low vocabulary diversity detected")>> ELSE <<>>)
         \o (IF c3
             THEN <<FactorN("Complex sentence structures detected (N instances)",
                            complex)>>
             ELSE <<>>)]

(***************************************************************************)
(* Score bands                                                             *)
(***************************************************************************)

generateFactorsFromScore(score) ==
  IF score > 60
  THEN <<Factor("HIGH LIKELIHOOD of AI-generated content"),
         Factor("Multiple strong AI content markers detected"),
         Factor("Content shows typical AI writing patterns")>>
  ELSE IF score > 40
  THEN <<Factor("MODERATE to HIGH likelihood of AI-generated content"),
         Factor("Several AI content indicators present"),
         Factor("Content shows some AI writing characteristics")>>
  ELSE IF score > 20
  THEN <<Factor("MODERATE AI content indicators"),
         Factor("Some unusual patterns identified"),
         Factor("Content may be partially AI-generated")>>
  ELSE IF score > 10
  THEN <<Factor("Minor AI content markers detected"),
         Factor("Some patterns suggest AI involvement")>>
  ELSE <<Factor("Content appears to be human-generated"),
         Factor("Minimal AI content markers detected")>>

\* generateRecommendationsFromScore with the high band starting at 60, the
\* slip the band boundary of C9 is there to tell apart.
generateRecommendationsInclusive(score) ==
  IF score >= 60
  THEN <<"(!) HIGH LIKELIHOOD of AI-generated content",
         "Strongly recommend manual review for accuracy",
         "Cross-reference all factual claims with reliable sources",
         "Consider rewriting in more natural language">>
  ELSE IF score > 40
  THEN <<"(!) MODERATE to HIGH likelihood of AI-generated content",
         "Review for factual accuracy and natural flow",
         "Verify key claims and statements",
         "Consider human editing for authenticity">>
  ELSE IF score > 20
  THEN <<"(!) MODERATE AI content indicators",
         "Review for accuracy and natural language",
         "Some sections may need human revision">>
  ELSE IF score > 10
  THEN <<"Minor AI content markers detected",
         "Review for accuracy">>
  ELSE <<"Content appears to be human-generated",
         "Content looks good!">>

\* "(!)" stands for the warning sign the source starts these strings with.
generateRecommendationsFromScore(score) ==
  IF score > 60
  THEN <<"(!) HIGH LIKELIHOOD of AI-generated content",
         "Strongly recommend manual review for accuracy",
         "Cross-reference all factual claims with reliable sources",
         "Consider rewriting in more natural language">>
  ELSE IF score > 40
  THEN <<"(!) MODERATE to HIGH likelihood of AI-generated content",
         "Review for factual accuracy and natural flow",
         "Verify key claims and statements",
         "Consider human editing for authenticity">>
  ELSE IF score > 20
  THEN <<"(!) MODERATE AI content indicators",
         "Review for accuracy and natural language",
         "Some sections may need human revision">>
  ELSE IF score > 10
  THEN <<"Minor AI content markers detected",
         "Review for accuracy">>
  ELSE <<"Content appears to be human-generated",
         "Content looks good!">>

(***************************************************************************)
(* Results.  The source's { score, analysis: { confidence, factors,        *)
(* recommendations, analysis } } is the record of these five fields.       *)
(***************************************************************************)

\* What a call yields: a value returned (kind "returned", a result or null)
\* or an error thrown (kind "threw", with the error's message).
NoResult ==
  [score |-> 0, confidence |-> 0, factors |-> <<>>, recommendations |-> <<>>,
   summary |-> ""]

Returned(r) == [kind |-> "returned", result |-> r, error |-> ""]

ReturnedNull == [kind |-> "null", result |-> NoResult, error |-> ""]

Threw(message) == [kind |-> "threw", result |-> NoResult, error |-> message]

(***************************************************************************)
(* parseHuggingFaceResponse                                                *)
(*                                                                         *)
(* A response body is [shape, pairs].  shape "null": a value without a     *)
(* length (null, an object); "empty": the empty list; "flat": a non-empty  *)
(* list whose first element is not a list; "nested": a list whose first    *)
(* element is the list `pairs` of label/score pairs.  A score is in        *)
(* thousandths, so that Math.round(score * 100) is computed.               *)
(***************************************************************************)

\* roundPercent rounding down, as Math.floor would, the slip C16 is there
\* to tell apart.
floorPercent(p) == p \div 10

\* Math.round(x * 100) for x = p / 1000: the nearest integer, halves up.
roundPercent(p) == (p + 5) \div 10

\* scores.find(s => s.label === label)?.score || 0
scoreOfLabel(pairs, label) ==
  LET at == {k \in 1..Len(pairs) : pairs[k].label = label}
  IN  IF at = {} THEN 0
      ELSE pairs[CHOOSE k \in at : \A j \in at : k <= j].score

parseHuggingFaceResponse(data) ==
  IF data.shape \in {"null", "empty"}
  THEN ReturnedNull
  ELSE IF data.shape = "flat"
  THEN Threw("scores.find is not a function")
  ELSE LET aiScore    == scoreOfLabel(data.pairs, "LABEL_1")
           humanScore == scoreOfLabel(data.pairs, "LABEL_0")
           hallucinationScore == roundPercent(aiScore)
       IN  Returned([score           |-> hallucinationScore,
                     confidence      |-> roundPercent(aiScore + humanScore),
                     factors         |-> generateFactorsFromScore(hallucinationScore),
                     recommendations |->
                       generateRecommendationsFromScore(hallucinationScore),
                     summary |->
                       "AI detection analysis completed using Hugging Face model"])

(***************************************************************************)
(* advancedLocalAnalysis                                                   *)
(***************************************************************************)

Analyzers == <<"language", "statistical", "semantic", "readability">>

\* What the four analyzers return for a text.
analyzerResults(content) ==
  [language    |-> analyzeLanguagePatterns(content),
   statistical |-> analyzeStatisticalFeatures(content),
   semantic    |-> analyzeSemanticFeatures(content),
   readability |-> analyzeReadabilityFeatures(content)]

\* The factor pushed in the catch block of an analyzer.
unavailableFactor ==
  [language    |-> Factor("Language pattern analysis unavailable"),
   statistical |-> Factor("Statistical analysis unavailable"),
   semantic    |-> Factor("Semantic analysis unavailable"),
   readability |-> Factor("Readability analysis unavailable")]

\* One try/catch block of lines 156-194: the score and the factors an
\* analyzer adds, `failing` being the analyzers that throw.
scoreAdded(results, failing, a) == IF a \in failing THEN 0 ELSE results[a].score

\* factorsAdded with no placeholder for an analyzer that throws, the slip C4
\* is there to tell apart.
factorsAddedSilent(results, failing, a) ==
  IF a \in failing THEN <<>> ELSE results[a].factors

factorsAdded(results, failing, a) ==
  IF a \in failing THEN <<unavailableFactor[a]>> ELSE results[a].factors

\* advancedLocalAnalysis with the bonus of short texts under 10 characters
\* only, the slip C15 is there to tell apart.
advancedLocalAnalysisShortAt10(contentLength, results, failing, escapes) ==
  LET summed   == scoreAdded(results, failing, "language")
                  + scoreAdded(results, failing, "statistical")
                  + scoreAdded(results, failing, "semantic")
                  + scoreAdded(results, failing, "readability")
      factors0 == factorsAdded(results, failing, "language")
                  \o factorsAdded(results, failing, "statistical")
                  \o factorsAdded(results, failing, "semantic")
                  \o factorsAdded(results, failing, "readability")
      score1   == Min(100, Max(0, summed))
      short    == contentLength < 10
      score2   == IF short THEN Min(100, score1 + 15) ELSE score1
      factors1 == IF short
                  THEN Append(factors0,
                         Factor("Very short content detected (potential AI-generated)"))
                  ELSE factors0
      long     == contentLength > 1000 /\ Len(factors1) > 3
      score3   == IF long THEN Min(100, score2 + 10) ELSE score2
      factors2 == IF long
                  THEN Append(factors1,
                         Factor("Long content with multiple AI patterns detected"))
                  ELSE factors1
  IN  IF escapes THEN Threw("Local analysis failed. Please try again.")
      ELSE Returned([score           |-> score3,
                     confidence      |-> 85,
                     factors         |-> IF Len(factors2) > 0 THEN factors2
                                         ELSE <<Factor("Content analysis completed")>>,
                     recommendations |-> generateRecommendationsFromScore(score3),
                     summary |->
                       "Advanced local analysis completed using multiple detection methods"])

\* advancedLocalAnalysis with the semantic analyzer run before the
\* statistical one, the slip C20 is there to tell apart.
advancedLocalAnalysisSwapped(contentLength, results, failing, escapes) ==
  LET summed   == scoreAdded(results, failing, "language")
                  + scoreAdded(results, failing, "statistical")
                  + scoreAdded(results, failing, "semantic")
                  + scoreAdded(results, failing, "readability")
      factors0 == factorsAdded(results, failing, "language")
                  \o factorsAdded(results, failing, "semantic")
                  \o factorsAdded(results, failing, "statistical")
                  \o factorsAdded(results, failing, "readability")
      score1   == Min(100, Max(0, summed))
      short    == contentLength < 100
      score2   == IF short THEN Min(100, score1 + 15) ELSE score1
      factors1 == IF short
                  THEN Append(factors0,
                         Factor("Very short content detected (potential AI-generated)"))
                  ELSE factors0
      long     == contentLength > 1000 /\ Len(factors1) > 3
      score3   == IF long THEN Min(100, score2 + 10) ELSE score2
      factors2 == IF long
                  THEN Append(factors1,
                         Factor("Long content with multiple AI patterns detected"))
                  ELSE factors1
  IN  IF escapes THEN Threw("Local analysis failed. Please try again.")
      ELSE Returned([score           |-> score3,
                     confidence      |-> 85,
                     factors         |-> IF Len(factors2) > 0 THEN factors2
                                         ELSE <<Factor("Content analysis completed")>>,
                     recommendations |-> generateRecommendationsFromScore(score3),
                     summary |->
                       "Advanced local analysis completed using multiple detection methods"])

\* advancedLocalAnalysis with the bonus of long texts given whatever the
\* number of factors, the slip C10 is there to tell apart.
advancedLocalAnalysisAnyLength(contentLength, results, failing, escapes) ==
  LET summed   == scoreAdded(results, failing, "language")
                  + scoreAdded(results, failing, "statistical")
                  + scoreAdded(results, failing, "semantic")
                  + scoreAdded(results, failing, "readability")
      factors0 == factorsAdded(results, failing, "language")
                  \o factorsAdded(results, failing, "statistical")
                  \o factorsAdded(results, failing, "semantic")
                  \o factorsAdded(results, failing, "readability")
      score1   == Min(100, Max(0, summed))
      short    == contentLength < 100
      score2   == IF short THEN Min(100, score1 + 15) ELSE score1
      factors1 == IF short
                  THEN Append(factors0,
                         Factor("Very short content detected (potential AI-generated)"))
                  ELSE factors0
      long     == contentLength > 1000
      score3   == IF long THEN Min(100, score2 + 10) ELSE score2
      factors2 == IF long
                  THEN Append(factors1,
                         Factor("Long content with multiple AI patterns detected"))
                  ELSE factors1
  IN  IF escapes THEN Threw("Local analysis failed. Please try again.")
      ELSE Returned([score           |-> score3,
                     confidence      |-> 85,
                     factors         |-> IF Len(factors2) > 0 THEN factors2
                                         ELSE <<Factor("Content analysis completed")>>,
                     recommendations |-> generateRecommendationsFromScore(score3),
                     summary |->
                       "Advanced local analysis completed using multiple detection methods"])

\* advancedLocalAnalysis with the recommendations taken from the score
\* before the bonus, the slip C22 is there to tell apart.
advancedLocalAnalysisEarlyBand(contentLength, results, failing, escapes) ==
  LET summed   == scoreAdded(results, failing, "language")
                  + scoreAdded(results, failing, "statistical")
                  + scoreAdded(results, failing, "semantic")
                  + scoreAdded(results, failing, "readability")
      factors0 == factorsAdded(results, failing, "language")
                  \o factorsAdded(results, failing, "statistical")
                  \o factorsAdded(results, failing, "semantic")
                  \o factorsAdded(results, failing, "readability")
      score1   == Min(100, Max(0, summed))
      short    == contentLength < 100
      score2   == IF short THEN Min(100, score1 + 15) ELSE score1
      factors1 == IF short
                  THEN Append(factors0,
                         Factor("Very short content detected (potential AI-generated)"))
                  ELSE factors0
      long     == contentLength > 1000 /\ Len(factors1) > 3
      score3   == IF long THEN Min(100, score2 + 10) ELSE score2
      factors2 == IF long
                  THEN Append(factors1,
                         Factor("Long content with multiple AI patterns detected"))
                  ELSE factors1
  IN  IF escapes THEN Threw("Local analysis failed. Please try again.")
      ELSE Returned([score           |-> score3,
                     confidence      |-> 85,
                     factors         |-> IF Len(factors2) > 0 THEN factors2
                                         ELSE <<Factor("Content analysis completed")>>,
                     recommendations |-> generateRecommendationsFromScore(score1),
                     summary |->
                       "Advanced local analysis completed using multiple detection methods"])

\* advancedLocalAnalysis with an empty list of factors returned as it is,
\* the slip C23 is there to tell apart.
advancedLocalAnalysisNoDefault(contentLength, results, failing, escapes) ==
  LET summed   == scoreAdded(results, failing, "language")
                  + scoreAdded(results, failing, "statistical")
                  + scoreAdded(results, failing, "semantic")
                  + scoreAdded(results, failing, "readability")
      factors0 == factorsAdded(results, failing, "language")
                  \o factorsAdded(results, failing, "statistical")
                  \o factorsAdded(results, failing, "semantic")
                  \o factorsAdded(results, failing, "readability")
      score1   == Min(100, Max(0, summed))
      short    == contentLength < 100
      score2   == IF short THEN Min(100, score1 + 15) ELSE score1
      factors1 == IF short
                  THEN Append(factors0,
                         Factor("Very short content detected (potential AI-generated)"))
                  ELSE factors0
      long     == contentLength > 1000 /\ Len(factors1) > 3
      score3   == IF long THEN Min(100, score2 + 10) ELSE score2
      factors2 == IF long
                  THEN Append(factors1,
                         Factor("Long content with multiple AI patterns detected"))
                  ELSE factors1
  IN  IF escapes THEN Threw("Local analysis failed. Please try again.")
      ELSE Returned([score           |-> score3,
                     confidence      |-> 85,
                     factors         |-> factors2,
                     recommendations |-> generateRecommendationsFromScore(score3),
                     summary |->
                       "Advanced local analysis completed using multiple detection methods"])

\* advancedLocalAnalysis with 5 added for a short text, the slip C29 is
\* there to tell apart.
advancedLocalAnalysisShortAdds5(contentLength, results, failing, escapes) ==
  LET summed   == scoreAdded(results, failing, "language")
                  + scoreAdded(results, failing, "statistical")
                  + scoreAdded(results, failing, "semantic")
                  + scoreAdded(results, failing, "readability")
      factors0 == factorsAdded(results, failing, "language")
                  \o factorsAdded(results, failing, "statistical")
                  \o factorsAdded(results, failing, "semantic")
                  \o factorsAdded(results, failing, "readability")
      score1   == Min(100, Max(0, summed))
      short    == contentLength < 100
      score2   == IF short THEN Min(100, score1 + 5) ELSE score1
      factors1 == IF short
                  THEN Append(factors0,
                         Factor("Very short content detected (potential AI-generated)"))
                  ELSE factors0
      long     == contentLength > 1000 /\ Len(factors1) > 3
      score3   == IF long THEN Min(100, score2 + 10) ELSE score2
      factors2 == IF long
                  THEN Append(factors1,
                         Factor("Long content with multiple AI patterns detected"))
                  ELSE factors1
  IN  IF escapes THEN Threw("Local analysis failed. Please try again.")
      ELSE Returned([score           |-> score3,
                     confidence      |-> 85,
                     factors         |-> IF Len(factors2) > 0 THEN factors2
                                         ELSE <<Factor("Content analysis completed")>>,
                     recommendations |-> generateRecommendationsFromScore(score3),
                     summary |->
                       "Advanced local analysis completed using multiple detection methods"])

\* advancedLocalAnalysis, given what the analyzers return for the text,
\* the analyzers that throw, and whether a statement outside the four
\* try/catch blocks throws.
advancedLocalAnalysis(contentLength, results, failing, escapes) ==
  LET summed   == scoreAdded(results, failing, "language")
                  + scoreAdded(results, failing, "statistical")
                  + scoreAdded(results, failing, "semantic")
                  + scoreAdded(results, failing, "readability")
      factors0 == factorsAdded(results, failing, "language")
                  \o factorsAdded(results, failing, "statistical")
                  \o factorsAdded(results, failing, "semantic")
                  \o factorsAdded(results, failing, "readability")
      score1   == Min(100, Max(0, summed))
      short    == contentLength < 100
      score2   == IF short THEN Min(100, score1 + 15) ELSE score1
      factors1 == IF short
                  THEN Append(factors0,
                         Factor("Very short content detected (potential AI-generated)"))
                  ELSE factors0
      long     == contentLength > 1000 /\ Len(factors1) > 3
      score3   == IF long THEN Min(100, score2 + 10) ELSE score2
      factors2 == IF long
                  THEN Append(factors1,
                         Factor("Long content with multiple AI patterns detected"))
                  ELSE factors1
  IN  IF escapes THEN Threw("Local analysis failed. Please try again.")
      ELSE Returned([score           |-> score3,
                     confidence      |-> 85,
                     factors         |-> IF Len(factors2) > 0 THEN factors2
                                         ELSE <<Factor("Content analysis completed")>>,
                     recommendations |-> generateRecommendationsFromScore(score3),
                     summary |->
                       "Advanced local analysis completed using multiple detection methods"])

(***************************************************************************)
(* The texts of the model.  A text is made of at most MaxFragments of the  *)
(* fragments below, joined by single spaces.  The fragments are chosen so  *)
(* that every branch of the analyzers and of the aggregation is taken by   *)
(* some text: one of punctuation only (no sentence at all, and alone       *)
(* shorter than the 10 characters analyzeContent asks for), one that       *)
(* triggers nothing, one of fewer than 100 characters whose analyzer       *)
(* scores sum to more than 100, one of numbers that triggers one heuristic *)
(* of each analyzer, a filler of 1000 characters in four long words, and   *)
(* one of whitespace alone; a text may only start with these two.          *)
(***************************************************************************)

MaxFragments == 2


\* ?!?! ...
fragmentPunct ==
  <<"?","!","?","!"," ",".",".",".">>

\* The cat sat on the mat today.
fragmentPlain ==
  <<"T","h","e"," ","c","a","t"," ","s","a","t"," ","o","n"," ","t","h","e",
    " ","m","a","t"," ","t","o","d","a","y",".">>

\* Thus hence besides however due to it might maybe as per amazing terrible
\* thorough rigorous!! ??
fragmentDense ==
  <<"T","h","u","s"," ","h","e","n","c","e"," ","b","e","s","i","d","e","s",
    " ","h","o","w","e","v","e","r"," ","d","u","e"," ","t","o"," ","i","t",
    " ","m","i","g","h","t"," ","m","a","y","b","e"," ","a","s"," ","p","e",
    "r"," ","a","m","a","z","i","n","g"," ","t","e","r","r","i","b","l","e",
    " ","t","h","o","r","o","u","g","h"," ","r","i","g","o","r","o","u","s",
    "!","!"," ","?","?">>

\* However, in 2023 detailed sales rose 12.5% to 1999 units!! Why??
fragmentNumbers ==
  <<"H","o","w","e","v","e","r",","," ","i","n"," ","2","0","2","3"," ","d",
    "e","t","a","i","l","e","d"," ","s","a","l","e","s"," ","r","o","s","e",
    " ","1","2",".","5","%"," ","t","o"," ","1","9","9","9"," ","u","n","i",
    "t","s","!","!"," ","W","h","y","?","?">>

\* 1000 characters: the words of 249, 249, 249 and 250 letters "x".
fragmentFiller ==
  AsSeq([i \in 1..1000 |-> IF i % 250 = 0 /\ i < 1000 THEN " " ELSE "x"])

\* A space, a line break and a space.
fragmentSpaces ==
  <<" ","\n"," ">>

Fragments ==
  [Spaces  |-> fragmentSpaces,
   Punct   |-> fragmentPunct,
   Plain   |-> fragmentPlain,
   Dense   |-> fragmentDense,
   Numbers |-> fragmentNumbers,
   Filler  |-> fragmentFiller]
(***************************************************************************)
(* The texts the local analysis is given directly: the degenerate ones (a  *)
(* single word, a text without punctuation, punctuation alone), the texts  *)
(* of the scenarios of the lexicons and of the commas, two texts that     *)
(* take the analyzers to their highest scores, and baselines with further  *)
(* instances of a lexicon phrase appended.                                 *)
(***************************************************************************)

\* The instances of a lexicon phrase appended to a baseline, at most.
MaxAppended == 5

\* Hello
fragmentWord ==
  <<"H","e","l","l","o">>

\* The cat sat on the mat
fragmentBare ==
  <<"T","h","e"," ","c","a","t"," ","s","a","t"," ","o","n"," ","t","h","e",
    " ","m","a","t">>

\* furthermore
fragmentFurthermore ==
  <<"f","u","r","t","h","e","r","m","o","r","e">>

\* perhaps
fragmentPerhaps ==
  <<"p","e","r","h","a","p","s">>

\* Furthermore, it is important to note the cat. Moreover, in conclusion
\* the dog sat.
fragmentConnectives ==
  <<"F","u","r","t","h","e","r","m","o","r","e",","," ","i","t"," ","i","s",
    " ","i","m","p","o","r","t","a","n","t"," ","t","o"," ","n","o","t","e",
    " ","t","h","e"," ","c","a","t","."," ","M","o","r","e","o","v","e","r",
    ","," ","i","n"," ","c","o","n","c","l","u","s","i","o","n"," ","t","h",
    "e"," ","d","o","g"," ","s","a","t",".">>

\* one two three four one two three four
fragmentRepeat ==
  <<"o","n","e"," ","t","w","o"," ","t","h","r","e","e"," ","f","o","u","r",
    " ","o","n","e"," ","t","w","o"," ","t","h","r","e","e"," ","f","o","u",
    "r">>

\* We saw red, green, blue, and gold. They ate fish, rice, peas, and corn.
\* Two sentences of three commas each.
fragmentCommas ==
  <<"W","e"," ","s","a","w"," ","r","e","d",","," ","g","r","e","e","n",",",
    " ","b","l","u","e",","," ","a","n","d"," ","g","o","l","d","."," ","T",
    "h","e","y"," ","a","t","e"," ","f","i","s","h",","," ","r","i","c","e",
    ","," ","p","e","a","s",","," ","a","n","d"," ","c","o","r","n",".">>

\* A text that has all the language analyzer and the semantic analyzer
\* look for: five connectives, seven hedging words, four formal phrases,
\* seven years, five acronyms, four emotional and three descriptive words,
\* and nine words said twice.
fragmentLoaded ==
  <<"T","h","u","s"," ","h","e","n","c","e"," ","b","e","s","i","d","e","s",
    " ","h","o","w","e","v","e","r"," ","d","u","e"," ","t","o"," ","m","i",
    "g","h","t"," ","c","o","u","l","d"," ","p","o","s","s","i","b","l","y",
    " ","p","e","r","h","a","p","s"," ","m","a","y","b","e"," ","s","e","e",
    "m","s"," ","l","i","k","e","l","y"," ","a","s"," ","p","e","r"," ","c",
    "o","n","c","e","r","n","i","n","g"," ","r","e","g","a","r","d","i","n",
    "g"," ","p","u","r","s","u","a","n","t"," ","t","o"," ","2","0","2","0",
    " ","2","0","2","1"," ","2","0","2","2"," ","2","0","2","3"," ","2","0",
    "2","4"," ","2","0","2","5"," ","2","0","2","6"," ","N","A","S","A"," ",
    "I","B","M"," ","C","P","U"," ","G","P","U"," ","R","A","M"," ","a","m",
    "a","z","i","n","g"," ","i","n","c","r","e","d","i","b","l","e"," ","f",
    "a","n","t","a","s","t","i","c"," ","t","e","r","r","i","b","l","e"," ",
    "t","h","o","r","o","u","g","h"," ","d","e","t","a","i","l","e","d"," ",
    "e","x","t","e","n","s","i","v","e"," ","o","n","e"," ","t","w","o"," ",
    "t","h","r","e","e"," ","f","o","u","r"," ","f","i","v","e"," ","s","i",
    "x"," ","s","e","v","e","n"," ","e","i","g","h","t"," ","n","i","n","e",
    " ","o","n","e"," ","t","w","o"," ","t","h","r","e","e"," ","f","o","u",
    "r"," ","f","i","v","e"," ","s","i","x"," ","s","e","v","e","n"," ","e",
    "i","g","h","t"," ","n","i","n","e">>

\* A text that has all the statistical analyzer and the readability
\* analyzer look for: six paragraphs of the one sentence
\* "banana, papaya, tomato, potato, avocado media!!", an empty line between
\* two of them.
fragmentUniform ==
  <<"b","a","n","a","n","a",","," ","p","a","p","a","y","a",","," ","t","o",
    "m","a","t","o",","," ","p","o","t","a","t","o",","," ","a","v","o","c",
    "a","d","o"," ","m","e","d","i","a","!","!","\n","\n","b","a","n","a",
    "n","a",","," ","p","a","p","a","y","a",","," ","t","o","m","a","t","o",
    ","," ","p","o","t","a","t","o",","," ","a","v","o","c","a","d","o"," ",
    "m","e","d","i","a","!","!","\n","\n","b","a","n","a","n","a",","," ",
    "p","a","p","a","y","a",","," ","t","o","m","a","t","o",","," ","p","o",
    "t","a","t","o",","," ","a","v","o","c","a","d","o"," ","m","e","d","i",
    "a","!","!","\n","\n","b","a","n","a","n","a",","," ","p","a","p","a",
    "y","a",","," ","t","o","m","a","t","o",","," ","p","o","t","a","t","o",
    ","," ","a","v","o","c","a","d","o"," ","m","e","d","i","a","!","!","\n",
    "\n","b","a","n","a","n","a",","," ","p","a","p","a","y","a",","," ","t",
    "o","m","a","t","o",","," ","p","o","t","a","t","o",","," ","a","v","o",
    "c","a","d","o"," ","m","e","d","i","a","!","!","\n","\n","b","a","n",
    "a","n","a",","," ","p","a","p","a","y","a",","," ","t","o","m","a","t",
    "o",","," ","p","o","t","a","t","o",","," ","a","v","o","c","a","d","o",
    " ","m","e","d","i","a","!","!">>

\* "furthermore" 50 times, a space between two of them: 599 characters.
fragmentFurthermore50 ==
  AsSeq([i \in 1..599 |-> IF i % 12 = 0 THEN " " ELSE fragmentFurthermore[i % 12]])

CoreFragments ==
  [Word          |-> fragmentWord,
   Bare          |-> fragmentBare,
   Furthermore   |-> fragmentFurthermore,
   Perhaps       |-> fragmentPerhaps,
   Connectives   |-> fragmentConnectives,
   Repeat        |-> fragmentRepeat,
   Furthermore50 |-> fragmentFurthermore50,
   Commas        |-> fragmentCommas,
   Loaded        |-> fragmentLoaded,
   Uniform       |-> fragmentUniform]

\* The phrases appended, one of aiPatterns and one of hedgingWords, and the
\* texts they are appended to.
AppendedPhrases == {"Furthermore", "Perhaps"}

Baselines == {"Word", "Plain", "Dense", "Repeat", "Punct", "Connectives"}

\* The text t with k instances of the phrase p appended.
appended(t, p, k) == t \o [i \in 1..k |-> p]

CoreTexts ==
  {<<"Bare">>, <<"Furthermore50">>, <<"Commas">>, <<"Loaded">>, <<"Uniform">>}
  \cup {appended(<<b>>, p, k) :
          b \in Baselines, p \in AppendedPhrases, k \in 0..MaxAppended}
  \cup {appended(<<>>, p, k) : p \in AppendedPhrases, k \in 1..MaxAppended}

\* The characters of a fragment.
fragmentOf(name) ==
  IF name \in DOMAIN Fragments THEN Fragments[name] ELSE CoreFragments[name]


FragmentNames == DOMAIN Fragments

\* What the user may have typed when the button is clicked: at most
\* MaxFragments fragments, the filler and the whitespace only as the first
\* of them.
Texts ==
  {t \in UNION {[1..n -> FragmentNames] : n \in 0..MaxFragments} :
     \A k \in 2..Len(t) : t[k] \notin {"Filler", "Spaces"}}

\* The value of the text input: the fragments of t joined by single spaces.
RECURSIVE joined(_, _)
joined(t, n) ==
  IF n = 0 THEN <<>>
  ELSE IF n = 1 THEN fragmentOf(t[1])
  ELSE joined(t, n - 1) \o <<" ">> \o fragmentOf(t[n])

inputValue(t) == joined(t, Len(t))

\* const content = this.textInput.value.trim()
contentOf(t) == trim(inputValue(t))

\* content.length for every text, computed once.
LengthTable ==
  {[text |-> t, length |-> Len(contentOf(t))] : t \in Texts \cup CoreTexts}

lengthOf(t) == (CHOOSE e \in LengthTable : e.text = t).length

\* The two checks analyzeContent makes before anything else:
\* !content, and content.length < 10.
isEmpty(t) == lengthOf(t) = 0

isTooShort(t) == lengthOf(t) < 10

\* The analyzers' results for every text that passes the checks and for
\* the texts the local analysis is given directly, computed once: the
\* analyzers are functions of the text alone.
AnalysisTable ==
  {[text |-> t, results |-> analyzerResults(contentOf(t))] :
     t \in {u \in Texts : ~isEmpty(u) /\ ~isTooShort(u)} \cup CoreTexts}

resultsOf(t) == (CHOOSE e \in AnalysisTable : e.text = t).results

\* this.advancedLocalAnalysis(content) for the text t.
localAnalysisOf(t, failing, escapes) ==
  advancedLocalAnalysis(lengthOf(t), resultsOf(t), failing, escapes)

(***************************************************************************)
(* The external classifier's answers                                       *)
(***************************************************************************)

\* The scores (in thousandths) a label of a response may carry: the ends of
\* the scale and the values around the band thresholds and around a half.
ResponseScores == {0, 100, 104, 105, 204, 205, 404, 405, 500, 604, 605, 900, 1000}

Pair(label, score) == [label |-> label, score |-> score]

\* The bodies response.json() may resolve with.
ResponseBodies ==
  {[shape |-> s, pairs |-> <<>>] : s \in {"null", "empty", "flat", "nested"}}
  \cup {[shape |-> "nested", pairs |-> <<Pair("LABEL_0", h), Pair("LABEL_1", a)>>] :
          h \in {0, 100, 900}, a \in ResponseScores}
  \cup {[shape |-> "nested", pairs |-> <<Pair("LABEL_1", a)>>] : a \in {0, 605}}
  \cup {[shape |-> "nested", pairs |-> <<Pair("Real", 900), Pair("Fake", 100)>>]}

NoBody == [shape |-> "null", pairs |-> <<>>]

(***************************************************************************)
(* The state                                                               *)
(***************************************************************************)

VARIABLES
  pc,           \* where analyzeContent stands ("idle": it is not running)
  request,      \* content: the text of the request in progress
  loading,      \* the analyze button is disabled (setLoading)
  display,      \* the results section: score field, error mark, visualization
  alertShown,   \* the alert the last click raised ("": none)
  staleTimers,  \* timers still armed of requests that have ended
  orphans,      \* backend calls still in flight of requests that timed out
  backend,      \* what the external attempt of the request came to
  body,         \* the body the external classifier answered with
  failed,       \* the analyzers that threw in the local analysis
  escaped,      \* an error left the local analysis
  outcome,      \* what Promise.race settled with for the request
  remembered    \* a text and the result a local analysis of it once gave

vars ==
  <<pc, request, loading, display, alertShown, staleTimers, orphans,
    backend, body, failed, escaped, outcome, remembered>>

\* The requests that have ended with their timer or their backend call
\* still pending, at most.
MaxPending == 1

\* The same, where the race of a request with what earlier requests have
\* left pending is looked at.
MaxLate == 2

\* localStorage.getItem('hf_token'): nothing stored, the placeholder, or a
\* token.
Tokens == {"none", "hf_xxx", "valid"}

\* const token = localStorage.getItem('hf_token') || 'hf_xxx';
\* token === 'hf_xxx' : no call is made.
tokenMissing(token) == token \in {"none", "hf_xxx"}

TimeoutMessage == "Analysis timed out. Please try again."

ApiFailedMessage == "Analysis failed. Please try again with different content."

DisplayFailedMessage == "Failed to display results"

\* What Promise.race settles with: a result or an error, from the external
\* classifier, from the local analysis or from the timer.
\* No result of a local analysis has been remembered.
NothingRemembered == [text |-> <<>>, result |-> NoResult]

NoOutcome == [kind |-> "none", result |-> NoResult, error |-> "", from |-> "none"]

Resolved(r, from) == [kind |-> "resolved", result |-> r, error |-> "", from |-> from]

Rejected(message, from) ==
  [kind |-> "rejected", result |-> NoResult, error |-> message, from |-> from]

\* localMethod with the score of the analysis displayed before added to
\* the score, as an analysis kept from one call to the next would, the
\* slip C11 is there to tell apart.
localMethodCarries(t, failing, escapes) ==
  LET r == localAnalysisOf(t, failing, escapes)
      carried == IF display.score.kind = "percent" THEN display.score.value ELSE 0
  IN  IF r.kind = "threw" THEN Rejected(ApiFailedMessage, "local")
      ELSE Resolved([r.result EXCEPT !.score = Min(100, @ + carried)], "local")

\* localMethod with the error of advancedLocalAnalysis passed on as it is,
\* the slip C8 is there to tell apart.
localMethodPassesOn(t, failing, escapes) ==
  LET r == localAnalysisOf(t, failing, escapes)
  IN  IF r.kind = "threw" THEN Rejected(r.error, "local")
      ELSE Resolved(r.result, "local")

\* callHallucinationAPI from "Method 2" on: the local analysis, its error
\* replaced by the one callHallucinationAPI throws.
localMethod(t, failing, escapes) ==
  LET r == localAnalysisOf(t, failing, escapes)
  IN  IF r.kind = "threw" THEN Rejected(ApiFailedMessage, "local")
      ELSE Resolved(r.result, "local")

\* What tryFreeAIAPI returns for a body: the parsed result, or null (kind
\* "null") when the parser returns null or throws (the catch of line 114).
externalMethod(data) ==
  LET r == parseHuggingFaceResponse(data)
  IN  IF r.kind = "threw" THEN ReturnedNull ELSE r

InitialDisplay ==
  [score |-> [kind |-> "initial", value |-> 0], errorClass |-> FALSE,
   face |-> "initial", details |-> "initial", message |-> ""]

\* displayResults without resetErrorState, the slip C18 is there to tell
\* apart: the error mark stays as it was.
displayResultsKeepsMark(result) ==
  [score |-> [kind |-> "percent", value |-> result.score],
   errorClass |-> display.errorClass,
   face |-> "block", details |-> "analysis", message |-> result.summary]

\* displayResults: Math.floor(result.score) + "%", the error mark removed,
\* the visualization shown, the details of the analysis written.
displayResults(result) ==
  [score |-> [kind |-> "percent", value |-> result.score], errorClass |-> FALSE,
   face |-> "block", details |-> "analysis", message |-> result.summary]

\* showErrorResult with the score field left as it was, the slip C3 is
\* there to tell apart.
showErrorResultKeepsScore(message) ==
  [score |-> display.score, errorClass |-> TRUE,
   face |-> "none", details |-> "error", message |-> message]

\* showErrorResult: "Error", the error mark set, the visualization hidden,
\* the message written.
showErrorResult(message) ==
  [score |-> [kind |-> "error", value |-> 0], errorClass |-> TRUE,
   face |-> "none", details |-> "error", message |-> message]

\* analyzeContent once Promise.race has settled (lines 45-56): a result is
\* displayed, an error is shown.  When a step of displayResults throws, its
\* catch block shows the error of the display (lines 518-521).
displayAfter(settled, throws) ==
  IF settled.kind = "rejected" THEN showErrorResult(settled.error)
  ELSE IF throws THEN showErrorResult(DisplayFailedMessage)
  ELSE displayResults(settled.result)

Init ==
  /\ pc = "idle"
  /\ request = <<>>
  /\ loading = FALSE
  /\ display = InitialDisplay
  /\ alertShown = ""
  /\ staleTimers = 0
  /\ orphans = 0
  /\ backend = "none"
  /\ body = NoBody
  /\ failed = {}
  /\ escaped = FALSE
  /\ outcome = NoOutcome
  /\ remembered = NothingRemembered

(***************************************************************************)
(* analyzeContent                                                          *)
(***************************************************************************)

\* The click on the analyze button with an empty text: lines 24-27.
RejectEmpty(t) ==
  /\ pc = "idle"
  /\ isEmpty(t)
  /\ alertShown' = "Please enter some content to analyze."
  /\ UNCHANGED <<pc, request, loading, display, staleTimers, orphans,
                 backend, body, failed, escaped, outcome, remembered>>

\* The click with a text of fewer than 10 characters: lines 30-33.
RejectShort(t) ==
  /\ pc = "idle"
  /\ ~isEmpty(t)
  /\ isTooShort(t)
  /\ alertShown' = "Please enter at least 10 characters for meaningful analysis."
  /\ UNCHANGED <<pc, request, loading, display, staleTimers, orphans,
                 backend, body, failed, escaped, outcome, remembered>>

\* The click with a valid text: setLoading(true), the timer armed, and
\* callHallucinationAPI run up to its first wait.  Without a token
\* tryFreeAIAPI returns null at once and the local analysis is next; with
\* one, the request is sent.
\* The click comes while fewer than `pending` timers and backend calls of
\* earlier requests are still pending.
StartWhile(t, token, pending) ==
  /\ pc = "idle"
  /\ staleTimers + orphans < pending
  /\ ~isEmpty(t)
  /\ ~isTooShort(t)
  /\ request' = t
  /\ loading' = TRUE
  /\ alertShown' = ""
  /\ IF tokenMissing(token)
     THEN pc' = "local" /\ backend' = "notConfigured"
     ELSE pc' = "fetching" /\ backend' = "pending"
  /\ UNCHANGED <<display, staleTimers, orphans, body, failed, escaped,
                 outcome, remembered>>

\* The click with a valid text while fewer than MaxPending timers and
\* backend calls of earlier requests are still pending.
Start(t, token) == StartWhile(t, token, MaxPending)

\* Promise.race has settled: the result is displayed or the error shown
\* (lines 45-56); the finally block is next.  The document may make a step
\* of displayResults throw.
Settle(settled) ==
  /\ outcome' = settled
  /\ \E throws \in BOOLEAN : display' = displayAfter(settled, throws)
  /\ pc' = "finally"

\* Finally without setLoading(false), the slip C28 is there to tell apart.
FinallyKeepsLoading ==
  /\ pc = "finally"
  /\ pc' = "idle"
  /\ request' = <<>>
  /\ backend' = "none"
  /\ body' = NoBody
  /\ failed' = {}
  /\ escaped' = FALSE
  /\ outcome' = NoOutcome
  /\ UNCHANGED <<loading, display, alertShown, staleTimers, orphans,
                 remembered>>

\* The finally block: setLoading(false).  analyzeContent returns, and its
\* content and result are gone.
Finally ==
  /\ pc = "finally"
  /\ pc' = "idle"
  /\ loading' = FALSE
  /\ request' = <<>>
  /\ backend' = "none"
  /\ body' = NoBody
  /\ failed' = {}
  /\ escaped' = FALSE
  /\ outcome' = NoOutcome
  /\ UNCHANGED <<display, alertShown, staleTimers, orphans, remembered>>

\* The finally block of a request the local analysis has given a result,
\* no analyzer having thrown, with the text and the result remembered for
\* the requests to come.  Texts of at most two fragments are remembered,
\* and one text only.
Remember ==
  /\ pc = "finally"
  /\ outcome.kind = "resolved"
  /\ outcome.from = "local"
  /\ failed = {}
  /\ Len(request) <= 2
  /\ remembered = NothingRemembered
  /\ remembered' = [text |-> request, result |-> outcome.result]
  /\ pc' = "idle"
  /\ loading' = FALSE
  /\ request' = <<>>
  /\ backend' = "none"
  /\ body' = NoBody
  /\ failed' = {}
  /\ escaped' = FALSE
  /\ outcome' = NoOutcome
  /\ UNCHANGED <<display, alertShown, staleTimers, orphans>>

(***************************************************************************)
(* tryFreeAIAPI and callHallucinationAPI                                   *)
(***************************************************************************)

\* FetchRejects with the error of fetch thrown on to the caller, the slip
\* C2 is there to tell apart.
FetchRejectsPropagates ==
  /\ pc = "fetching"
  /\ backend' = "fetchRejected"
  /\ Settle(Rejected("Failed to fetch", "external"))
  /\ staleTimers' = staleTimers + 1
  /\ UNCHANGED <<request, loading, alertShown, orphans, body, failed, escaped,
                 remembered>>

\* fetch rejects (the network fails): the catch of line 114, then null.
FetchRejects ==
  /\ pc = "fetching"
  /\ pc' = "local"
  /\ backend' = "fetchRejected"
  /\ UNCHANGED <<request, loading, display, alertShown, staleTimers,
                 orphans, body, failed, escaped, outcome, remembered>>

\* FetchNotOk with the status thrown as an error to the caller, the slip C6
\* is there to tell apart.
FetchNotOkThrows ==
  /\ pc = "fetching"
  /\ backend' = "notOk"
  /\ Settle(Rejected("HTTP error", "external"))
  /\ staleTimers' = staleTimers + 1
  /\ UNCHANGED <<request, loading, alertShown, orphans, body, failed, escaped,
                 remembered>>

\* The classifier answers with a status that is not a success: null.
FetchNotOk ==
  /\ pc = "fetching"
  /\ pc' = "local"
  /\ backend' = "notOk"
  /\ UNCHANGED <<request, loading, display, alertShown, staleTimers,
                 orphans, body, failed, escaped, outcome, remembered>>

\* The classifier answers with a success: response.json() is awaited.
FetchOk ==
  /\ pc = "fetching"
  /\ pc' = "reading"
  /\ UNCHANGED <<request, loading, display, alertShown, staleTimers,
                 orphans, backend, body, failed, escaped, outcome, remembered>>

\* response.json() rejects: the catch of line 114, then null.
BodyFails ==
  /\ pc = "reading"
  /\ pc' = "local"
  /\ backend' = "bodyFailed"
  /\ UNCHANGED <<request, loading, display, alertShown, staleTimers,
                 orphans, body, failed, escaped, outcome, remembered>>

\* BodyUsable with the result of the classifier not returned and the local
\* analysis gone on to, the slip C19 is there to tell apart.
BodyUsableGoesOn(data) ==
  /\ pc = "reading"
  /\ externalMethod(data).kind = "returned"
  /\ body' = data
  /\ backend' = "usable"
  /\ pc' = "local"
  /\ UNCHANGED <<request, loading, display, alertShown, staleTimers,
                 orphans, failed, escaped, outcome, remembered>>

\* response.json() resolves with a body the parser makes a result of:
\* callHallucinationAPI returns it and the race is won.  The timer of the
\* request stays armed.
BodyUsable(data) ==
  /\ pc = "reading"
  /\ externalMethod(data).kind = "returned"
  /\ body' = data
  /\ backend' = "usable"
  /\ Settle(Resolved(externalMethod(data).result, "external"))
  /\ staleTimers' = staleTimers + 1
  /\ UNCHANGED <<request, loading, alertShown, orphans, failed, escaped,
                 remembered>>

\* response.json() resolves with a body the parser returns null for, or
\* throws on: tryFreeAIAPI returns null.
BodyUnusable(data) ==
  /\ pc = "reading"
  /\ externalMethod(data).kind = "null"
  /\ body' = data
  /\ backend' = IF parseHuggingFaceResponse(data).kind = "threw"
                THEN "parserThrew" ELSE "parserNull"
  /\ pc' = "local"
  /\ UNCHANGED <<request, loading, display, alertShown, staleTimers,
                 orphans, failed, escaped, outcome, remembered>>

\* "Method 2": the local analysis, run when tryFreeAIAPI has returned null.
\* It is synchronous and follows in the same turn, so it settles the race
\* before the timer can fire.  `failing` are the analyzers that throw.
LocalAnalysis(failing) ==
  /\ pc = "local"
  /\ failed' = failing
  /\ Settle(localMethod(request, failing, FALSE))
  /\ staleTimers' = staleTimers + 1
  /\ UNCHANGED <<request, loading, alertShown, orphans, backend, body,
                 escaped, remembered>>

\* The local analysis with an error that leaves advancedLocalAnalysis: one
\* thrown outside the try/catch blocks of the analyzers.
LocalAnalysisThrows ==
  /\ pc = "local"
  /\ escaped' = TRUE
  /\ Settle(localMethod(request, {}, TRUE))
  /\ staleTimers' = staleTimers + 1
  /\ UNCHANGED <<request, loading, alertShown, orphans, backend, body, failed,
                 remembered>>

\* The timer of the request fires while the classifier's answer is awaited:
\* the race is lost, the timeout is shown.  The backend call goes on.
Timeout ==
  /\ pc \in {"fetching", "reading"}
  /\ Settle(Rejected(TimeoutMessage, "timer"))
  /\ backend' = "timedOut"
  /\ orphans' = orphans + 1
  /\ UNCHANGED <<request, loading, alertShown, staleTimers, body, failed,
                 escaped, remembered>>

\* The backend call of a request that timed out comes to its end: the race
\* was settled, what the call yields is dropped.
OrphanSettles ==
  /\ pc \in {"idle", "fetching", "reading"}
  /\ orphans > 0
  /\ orphans' = orphans - 1
  /\ UNCHANGED <<pc, request, loading, display, alertShown, staleTimers,
                 backend, body, failed, escaped, outcome, remembered>>

\* StaleTimerFires with the timeout shown all the same, the slip C27 is
\* there to tell apart.
StaleTimerFiresShows ==
  /\ pc \in {"idle", "fetching", "reading"}
  /\ staleTimers > 0
  /\ staleTimers' = staleTimers - 1
  /\ display' = showErrorResult(TimeoutMessage)
  /\ UNCHANGED <<pc, request, loading, alertShown, orphans,
                 backend, body, failed, escaped, outcome, remembered>>

\* The timer of a request that has ended fires: the race was settled, the
\* rejection is dropped.
StaleTimerFires ==
  /\ pc \in {"idle", "fetching", "reading"}
  /\ staleTimers > 0
  /\ staleTimers' = staleTimers - 1
  /\ UNCHANGED <<pc, request, loading, display, alertShown, orphans,
                 backend, body, failed, escaped, outcome, remembered>>

AnalyzerSets == SUBSET {"language", "statistical", "semantic", "readability"}

Next ==
  \/ \E t \in Texts : RejectEmpty(t)
  \/ \E t \in Texts : RejectShort(t)
  \/ \E t \in Texts, token \in Tokens : Start(t, token)
  \/ Finally
  \/ FetchRejects
  \/ FetchNotOk
  \/ FetchOk
  \/ BodyFails
  \/ \E data \in ResponseBodies : BodyUsable(data)
  \/ \E data \in ResponseBodies : BodyUnusable(data)
  \/ \E failing \in AnalyzerSets : LocalAnalysis(failing)
  \/ LocalAnalysisThrows
  \/ Timeout
  \/ OrphanSettles
  \/ StaleTimerFires

Spec == Init /\ [][Next]_vars

(***************************************************************************)
(* The classifier's answers over the whole scale.  A request whose answer  *)
(* is being read, the answer giving the two labels scores that add up to   *)
(* one, the score of LABEL_1 any hundredth.                                 *)
(***************************************************************************)

BandBodies ==
  {[shape |-> "nested",
    pairs |-> <<Pair("LABEL_0", 1000 - 10 * k), Pair("LABEL_1", 10 * k)>>] :
     k \in 0..100}

BandInit ==
  /\ pc = "reading"
  /\ request \in {t \in Texts : Len(t) = 1 /\ ~isEmpty(t) /\ ~isTooShort(t)}
  /\ loading = TRUE
  /\ display = InitialDisplay
  /\ alertShown = ""
  /\ staleTimers = 0
  /\ orphans = 0
  /\ backend = "pending"
  /\ body = NoBody
  /\ failed = {}
  /\ escaped = FALSE
  /\ outcome = NoOutcome
  /\ remembered = NothingRemembered

BandNext ==
  \/ \E data \in BandBodies : BodyUsable(data)
  \/ Finally

BandSpec == BandInit /\ [][BandNext]_vars

(***************************************************************************)
(* The detector with no token stored, as it is installed: every request    *)
(* goes to the local analysis.  The analyzers throw all or none.           *)
(***************************************************************************)

LocalNext ==
  \/ \E t \in Texts, token \in {"none", "hf_xxx"} : Start(t, token)
  \/ \E failing \in {{}, DOMAIN unavailableFactor} : LocalAnalysis(failing)
  \/ LocalAnalysisThrows
  \/ Finally
  \/ Remember
  \/ StaleTimerFires

LocalSpec == Init /\ [][LocalNext]_vars

(***************************************************************************)
(* The local analysis given a text directly, whatever its length: the     *)
(* call of advancedLocalAnalysis by callHallucinationAPI, without the      *)
(* checks analyzeContent makes before.                                     *)
(***************************************************************************)

CoreInit ==
  /\ pc = "local"
  /\ request \in CoreTexts
  /\ loading = TRUE
  /\ display = InitialDisplay
  /\ alertShown = ""
  /\ staleTimers = 0
  /\ orphans = 0
  /\ backend = "notConfigured"
  /\ body = NoBody
  /\ failed = {}
  /\ escaped = FALSE
  /\ outcome = NoOutcome
  /\ remembered = NothingRemembered

CoreNext ==
  \/ \E failing \in AnalyzerSets : LocalAnalysis(failing)
  \/ LocalAnalysisThrows
  \/ Finally

CoreSpec == CoreInit /\ [][CoreNext]_vars

(***************************************************************************)
(* The race of a request with its timer and with what the requests before *)
(* have left pending: requests of one fragment, sent while up to MaxLate   *)
(* timers and backend calls of earlier requests are still to come.         *)
(***************************************************************************)

RaceNext ==
  \/ \E t \in {u \in Texts : Len(u) = 1}, token \in Tokens :
       StartWhile(t, token, MaxLate)
  \/ Finally
  \/ FetchRejects
  \/ FetchNotOk
  \/ FetchOk
  \/ BodyFails
  \/ \E data \in ResponseBodies : BodyUsable(data)
  \/ \E data \in ResponseBodies : BodyUnusable(data)
  \/ \E failing \in {{}, DOMAIN unavailableFactor} : LocalAnalysis(failing)
  \/ LocalAnalysisThrows
  \/ Timeout
  \/ OrphanSettles
  \/ StaleTimerFires

RaceSpec == Init /\ [][RaceNext]_vars

(***************************************************************************)
(* The requests of one fragment with what the event loop guarantees: the   *)
(* timer of a request fires after its 30 seconds when nothing has settled  *)
(* the race before, the local analysis and the finally block run to their  *)
(* end once they are reached.                                              *)
(***************************************************************************)

LiveNext ==
  \/ \E t \in {u \in Texts : Len(u) <= 1} : RejectEmpty(t)
  \/ \E t \in {u \in Texts : Len(u) <= 1} : RejectShort(t)
  \/ \E t \in {u \in Texts : Len(u) <= 1}, token \in Tokens : Start(t, token)
  \/ Finally
  \/ FetchRejects
  \/ FetchNotOk
  \/ FetchOk
  \/ BodyFails
  \/ \E data \in ResponseBodies : BodyUsable(data)
  \/ \E data \in ResponseBodies : BodyUnusable(data)
  \/ \E failing \in {{}, DOMAIN unavailableFactor} : LocalAnalysis(failing)
  \/ LocalAnalysisThrows
  \/ Timeout
  \/ OrphanSettles
  \/ StaleTimerFires

LiveSpec ==
  /\ Init
  /\ [][LiveNext]_vars
  /\ WF_vars(Timeout)
  /\ WF_vars((\E failing \in {{}, DOMAIN unavailableFactor} :
                 LocalAnalysis(failing))
               \/ LocalAnalysisThrows)
  /\ WF_vars(Finally)

(***************************************************************************)
(* Properties                                                              *)
(***************************************************************************)

\* The request has ended: Promise.race has settled and what it settled with
\* has been displayed.
Ended == pc = "finally"

\* What advancedLocalAnalysis returns for the text of the request, the
\* analyzers in `failed` having thrown.
localResult == advancedLocalAnalysis(lengthOf(request), resultsOf(request), failed, FALSE).result

\* C1: whatever the text and whatever the backend came to, the result
\* callHallucinationAPI returns has its score and its confidence between 0
\* and 100.
C1_ScoreAndConfidenceInRange ==
  (Ended /\ outcome.kind = "resolved") =>
    /\ outcome.result.score \in 0..100
    /\ outcome.result.confidence \in 0..100

\* C2: when fetch rejects or the body cannot be read, callHallucinationAPI
\* resolves with the result of the local analysis of the same text, and
\* what it settles with never comes from the external call.
C2_NetworkErrorFallsBack ==
  (Ended /\ backend \in {"fetchRejected", "bodyFailed"}) =>
    /\ outcome.from = "local"
    /\ ~escaped => outcome = Resolved(localResult, "local")
    /\ outcome.kind = "rejected" => outcome.error = ApiFailedMessage

C2_Witness ==
  /\ Ended
  /\ backend = "fetchRejected"
  /\ outcome.kind = "resolved"
  /\ outcome.result.score = 75
  /\ display.score = [kind |-> "percent", value |-> 75]

\* C3: when the timer fires before the backend has a result, the request
\* ends with the timeout error shown: the score field reads "Error", the
\* visualization is hidden, and no score of this or an earlier request
\* stays displayed.
C3_TimeoutShowsError ==
  (Ended /\ backend = "timedOut") =>
    /\ outcome = Rejected(TimeoutMessage, "timer")
    /\ display.score.kind = "error"
    /\ display.errorClass
    /\ display.face = "none"
    /\ display.message = TimeoutMessage

\* A request has timed out and its backend call is still in flight.
C3_Witness ==
  /\ Ended
  /\ backend = "timedOut"
  /\ orphans = 1
  /\ display.score.kind = "error"
  /\ display.message = TimeoutMessage

\* The analyzers, and how often a factor occurs in a list of factors.
AnalyzerNames == DOMAIN unavailableFactor

countOf(factors, f) == Cardinality({i \in DOMAIN factors : factors[i] = f})

\* What the analyzer `a` gives to the local analysis of the request when it
\* does not throw.
scoreOf(a) == resultsOf(request)[a].score

factorsOf(a) == resultsOf(request)[a].factors

\* The sum of the scores of the analyzers that did not throw, and the
\* number of factors accumulated by the four try/catch blocks.
sumOfScores ==
  sum([i \in 1..4 |-> IF Analyzers[i] \in failed THEN 0 ELSE scoreOf(Analyzers[i])])

accumulated ==
  sum([i \in 1..4 |-> IF Analyzers[i] \in failed THEN 1 ELSE Len(factorsOf(Analyzers[i]))])

shortFactor == Factor("Very short content detected (potential AI-generated)")

longFactor == Factor("Long content with multiple AI patterns detected")

\* The bonus the claims C4 and C10 name: 15 under 100 characters, 10 over
\* 1000 characters with more than 3 factors, 0 otherwise.
bonus ==
  IF lengthOf(request) < 100 THEN 15
  ELSE IF lengthOf(request) > 1000 /\ accumulated > 3 THEN 10
  ELSE 0

\* The request has ended with what the local analysis returned.
EndedLocal == Ended /\ outcome.from = "local" /\ ~escaped

\* C4: when some of the four analyzers throw, but not all, the aggregation
\* still returns a result; an analyzer that threw adds 0 to the score and
\* its one "unavailable" factor, and every other analyzer adds its whole
\* score and all its factors.
C4_PartialFailure ==
  (EndedLocal /\ failed # {} /\ failed # AnalyzerNames) =>
    /\ outcome.kind = "resolved"
    /\ \A a \in failed :
         countOf(outcome.result.factors, unavailableFactor[a]) = 1
    /\ \A a \in AnalyzerNames \ failed :
         /\ countOf(outcome.result.factors, unavailableFactor[a]) = 0
         /\ \A i \in DOMAIN factorsOf(a) :
              countOf(outcome.result.factors, factorsOf(a)[i]) >= 1
    /\ Len(outcome.result.factors)
         = accumulated + countOf(outcome.result.factors, shortFactor)
                       + countOf(outcome.result.factors, longFactor)
    /\ outcome.result.score = Min(100, Min(100, sumOfScores) + bonus)

\* The language analyzer alone throws on a text the four analyzers score
\* 54, 15, 20 and 20: 55 is left, and 15 added for the short text.
C4_Witness ==
  /\ EndedLocal
  /\ request = <<"Dense">>
  /\ failed = {"language"}
  /\ outcome.result.score = 70
  /\ countOf(outcome.result.factors, unavailableFactor["language"]) = 1

\* C5: when the four analyzers all throw, the request ends with the one
\* error asking to try different content, and no score is returned.
C5_AllFailIsAnError ==
  (Ended /\ outcome.from = "local" /\ failed = AnalyzerNames) =>
    /\ outcome.kind = "rejected"
    /\ outcome.error = ApiFailedMessage
    /\ display.score.kind = "error"

\* C6: when no token is stored, or the classifier answers with a status
\* that is not a success, callHallucinationAPI returns the result of the
\* local analysis of the text and no error of the external call.
C6_UnavailableFallsBack ==
  (Ended /\ backend \in {"notConfigured", "notOk"}) =>
    /\ outcome.from = "local"
    /\ ~escaped => /\ outcome = Resolved(localResult, "local")
                   /\ display \in {displayResults(localResult),
                                   showErrorResult(DisplayFailedMessage)}
    /\ outcome.kind = "rejected" => outcome.error = ApiFailedMessage

C6_Witness ==
  /\ Ended
  /\ backend = "notOk"
  /\ failed = {}
  /\ request = <<"Numbers">>
  /\ outcome.kind = "resolved"
  /\ display.score = [kind |-> "percent", value |-> 75]

\* A body is malformed when it does not carry the two pairs expected, one
\* of label LABEL_0 and one of label LABEL_1.
malformed(data) ==
  ~ /\ data.shape = "nested"
    /\ \E i \in DOMAIN data.pairs : data.pairs[i].label = "LABEL_0"
    /\ \E i \in DOMAIN data.pairs : data.pairs[i].label = "LABEL_1"

\* C7: a successful answer with a malformed body ends with the result of
\* the local analysis: the body gives no score of its own and no error.
C7_MalformedFallsBack ==
  (Ended /\ backend \in {"usable", "parserNull", "parserThrew"} /\ malformed(body)) =>
    /\ outcome.from = "local"
    /\ ~escaped => outcome = Resolved(localResult, "local")

\* C8: when an error leaves the local analysis, the external classifier
\* having been unavailable, callHallucinationAPI rejects and the request
\* ends with the one message asking to try again with different content.
C8_LocalFailureIsSurfaced ==
  (Ended /\ escaped) =>
    /\ backend \in {"notConfigured", "fetchRejected", "notOk", "bodyFailed",
                     "parserNull", "parserThrew"}
    /\ outcome = Rejected(ApiFailedMessage, "local")
    /\ display = showErrorResult(ApiFailedMessage)
    /\ display.score.kind = "error"

C8_Witness ==
  /\ Ended
  /\ escaped
  /\ backend = "bodyFailed"
  /\ outcome.kind = "rejected"
  /\ display.message = ApiFailedMessage

\* The five bands as C9 gives them, and the line each opens its factors and
\* its recommendations with.
bandOf(score) ==
  IF score > 60 THEN "high"
  ELSE IF score > 40 /\ score <= 60 THEN "moderateToHigh"
  ELSE IF score > 20 /\ score <= 40 THEN "moderate"
  ELSE IF score > 10 /\ score <= 20 THEN "minor"
  ELSE "human"

firstFactor ==
  [high           |-> Factor("HIGH LIKELIHOOD of AI-generated content"),
   moderateToHigh |-> Factor("MODERATE to HIGH likelihood of AI-generated content"),
   moderate       |-> Factor("MODERATE AI content indicators"),
   minor          |-> Factor("Minor AI content markers detected"),
   human          |-> Factor("Content appears to be human-generated")]

firstRecommendation ==
  [high           |-> "(!) HIGH LIKELIHOOD of AI-generated content",
   moderateToHigh |-> "(!) MODERATE to HIGH likelihood of AI-generated content",
   moderate       |-> "(!) MODERATE AI content indicators",
   minor          |-> "Minor AI content markers detected",
   human          |-> "Content appears to be human-generated"]

\* C9: for every score from 0 to 100 the factors and the recommendations
\* are those of the same band, the band of the score: over 60 high, over 40
\* moderate to high, over 20 moderate, over 10 minor, human otherwise.
C9_SameBand ==
  (Ended /\ outcome.from = "external") =>
    /\ outcome.result.score \in 0..100
    /\ outcome.result.factors[1] = firstFactor[bandOf(outcome.result.score)]
    /\ outcome.result.recommendations[1]
         = firstRecommendation[bandOf(outcome.result.score)]

\* The score 60: the band from 40 to 60 in both lists.
C9_Witness ==
  /\ Ended
  /\ outcome.from = "external"
  /\ outcome.result.score = 60
  /\ outcome.result.factors[1] = firstFactor["moderateToHigh"]
  /\ outcome.result.recommendations[1] = firstRecommendation["moderateToHigh"]

\* C10: the score of the local analysis is min(100, min(100, max(0, S)) + b),
\* S the sum of the scores of the analyzers that did not throw and b the
\* bonus; the two bonuses are never given together.
C10_FinalScore ==
  EndedLocal =>
    /\ outcome.result.score = Min(100, Min(100, Max(0, sumOfScores)) + bonus)
    /\ countOf(outcome.result.factors, shortFactor) = (IF bonus = 15 THEN 1 ELSE 0)
    /\ countOf(outcome.result.factors, longFactor) = (IF bonus = 10 THEN 1 ELSE 0)
    /\ ~ /\ countOf(outcome.result.factors, shortFactor) > 0
         /\ countOf(outcome.result.factors, longFactor) > 0

\* A text of more than 1000 characters with more than 3 factors, and the
\* 10 of the bonus showing in the score.
C10_Witness ==
  /\ EndedLocal
  /\ failed = {}
  /\ lengthOf(request) > 1000
  /\ accumulated > 3
  /\ sumOfScores < 90
  /\ outcome.result.score = sumOfScores + 10

LanguageAnalyzed == Ended /\ outcome.from = "local" /\ "language" \notin failed

\* The score analyzeLanguagePatterns gives the text t.
languageScore(t) == resultsOf(t)["language"].score

\* C12 as it is claimed: the text of 50 times "furthermore" has a score of
\* exactly 40 from the language analyzer.
C12_FiftyGive40 ==
  (LanguageAnalyzed /\ request = <<"Furthermore50">>) => languageScore(request) = 40

\* C12: the text of 50 times "furthermore" has a score of exactly 16 from
\* the language analyzer, two entries of aiPatterns being found in it
\* ("furthermore" and "further") and each counted once; with no analyzer
\* throwing that is the first factor of the result, and the score of the
\* result is the 16 and the scores of the three other analyzers.
C12_FiftyGive16 ==
  (LanguageAnalyzed /\ request = <<"Furthermore50">>) =>
    /\ languageScore(request) = 16
    /\ languageScore(request) <= 40
    /\ (failed = {} /\ ~escaped) =>
         /\ outcome.result.factors[1]
              = FactorN("AI-generated language patterns detected (N instances)", 2)
         /\ outcome.result.score = 16 + resultsOf(request)["statistical"].score
                                       + resultsOf(request)["semantic"].score
                                       + resultsOf(request)["readability"].score

C12_Witness ==
  /\ LanguageAnalyzed
  /\ request = <<"Furthermore50">>
  /\ failed = {}
  /\ ~escaped
  /\ lengthOf(request) = 599
  /\ outcome.result.factors[1]
       = FactorN("AI-generated language patterns detected (N instances)", 2)

\* C13: the text with the four phrases "furthermore", "it is important to
\* note", "moreover" and "in conclusion", and no other of the lexicons, has
\* 4 matches counted and a score of 32 from the language analyzer.
C13_FourGive32 ==
  (LanguageAnalyzed /\ request = <<"Connectives">>) =>
    /\ languageScore(request) = 32
    /\ resultsOf(request)["language"].factors
         = <<FactorN("AI-generated language patterns detected (N instances)", 4)>>

\* C14: appending instances of a lexicon phrase to the text of the request
\* never gives a lower score from the language analyzer than the text has.
C14_AppendingNeverLowers ==
  LanguageAnalyzed =>
    \A p \in AppendedPhrases, k \in 1..MaxAppended :
      appended(request, p, k) \in CoreTexts =>
        languageScore(appended(request, p, k)) >= languageScore(request)

\* A text whose score grows with the phrases appended: 26 with one
\* "furthermore" after the baseline, 31 with four.
C14_Witness ==
  /\ LanguageAnalyzed
  /\ request = <<"Repeat", "Furthermore">>
  /\ languageScore(request) = 26
  /\ languageScore(appended(request, "Furthermore", 3)) = 31

\* The degenerate texts: a single word, a text with no punctuation, and
\* punctuation alone, which has no sentence.
Degenerate == {<<"Word">>, <<"Bare">>, <<"Punct">>}

\* C15: the local analysis of a degenerate text gives a well-formed result:
\* no analyzer is reported unavailable, the score is an integer from 0 to
\* 100 made of the sum of the four scores and of the 15 of the short text,
\* whose factor is there.
C15_DegenerateIsWellFormed ==
  (EndedLocal /\ failed = {} /\ request \in Degenerate) =>
    /\ outcome.kind = "resolved"
    /\ outcome.result.score \in 0..100
    /\ outcome.result.confidence = 85
    /\ \A a \in AnalyzerNames :
         /\ countOf(outcome.result.factors, unavailableFactor[a]) = 0
         /\ scoreOf(a) \in 0..100
    /\ lengthOf(request) < 100
    /\ outcome.result.score = Min(100, sumOfScores + 15)
    /\ outcome.result.factors[Len(outcome.result.factors)] = shortFactor
    /\ Len(outcome.result.recommendations) > 0

\* Punctuation alone: no sentence, and still a score, 50.
C15_Witness ==
  /\ EndedLocal
  /\ failed = {}
  /\ request = <<"Punct">>
  /\ Len(sentencesOf(contentOf(request))) = 0
  /\ outcome.result.score = 50

\* The score, in thousandths, the pair of a label carries in the body.
probability(data, label) ==
  LET i == CHOOSE i \in DOMAIN data.pairs : data.pairs[i].label = label
  IN  data.pairs[i].score

\* n is x thousandths times 100, rounded to the nearest integer, a half
\* rounded up.
isRounded(n, x) == 10 * n - 5 <= x /\ x < 10 * n + 5

\* C16: a usable answer with the probabilities p1 of LABEL_1 and p0 of
\* LABEL_0 gives the score round(p1 * 100), the confidence
\* round((p1 + p0) * 100), and the factors and recommendations of the band
\* of that score.
C16_ResponseIsNormalized ==
  (Ended /\ backend = "usable" /\ ~malformed(body)) =>
    /\ outcome.kind = "resolved"
    /\ outcome.from = "external"
    /\ isRounded(outcome.result.score, probability(body, "LABEL_1"))
    /\ isRounded(outcome.result.confidence,
                 probability(body, "LABEL_1") + probability(body, "LABEL_0"))
    /\ outcome.result.factors = generateFactorsFromScore(outcome.result.score)
    /\ outcome.result.recommendations
         = generateRecommendationsFromScore(outcome.result.score)
    /\ outcome.result.factors[1] = firstFactor[bandOf(outcome.result.score)]

\* The probabilities 0.605 and 0.1: the score 61, a half rounded up, and
\* the confidence 71.
C16_Witness ==
  /\ Ended
  /\ backend = "usable"
  /\ ~malformed(body)
  /\ probability(body, "LABEL_1") = 605
  /\ probability(body, "LABEL_0") = 100
  /\ outcome.result.score = 61
  /\ outcome.result.confidence = 71
  /\ outcome.result.factors[1] = firstFactor["high"]

\* The number of characters of the text t from its first to its last
\* character that is not whitespace: the length of the trimmed text.
SpanTable ==
  {[text   |-> t,
    length |-> LET s     == inputValue(t)
                   solid == {i \in 1..Len(s) : s[i] \notin Whitespace}
               IN  IF solid = {} THEN 0
                   ELSE 1 + Cardinality({i \in 1..Len(s) :
                                           /\ \E j \in solid : j < i
                                           /\ \E j \in solid : j > i})
                          + (IF Cardinality(solid) > 1 THEN 1 ELSE 0)] :
     t \in Texts}

trimmedLength(t) == (CHOOSE e \in SpanTable : e.text = t).length

\* C17: a text that is empty or shorter than 10 characters once trimmed is
\* rejected before anything else: no request is ever in progress for such
\* a text, and the step that raises the alert leaves the loading state,
\* the backends and the display as they are.
C17_InvalidInputIsRejected ==
  /\ [](pc # "idle" => trimmedLength(request) >= 10)
  /\ [][(alertShown' # alertShown /\ alertShown' # "") =>
          /\ pc = "idle" /\ pc' = "idle"
          /\ ~loading /\ ~loading'
          /\ UNCHANGED <<request, display, backend, body, failed, escaped,
                         outcome, staleTimers, orphans>>]_vars

\* A text too short is rejected with the score of an earlier request left
\* on display.
C17_Witness ==
  /\ pc = "idle"
  /\ alertShown = "Please enter at least 10 characters for meaningful analysis."
  /\ ~loading
  /\ display.score = [kind |-> "percent", value |-> 75]
  /\ backend = "none"

\* The request has ended with an error shown to the user: Promise.race
\* settled with an error, or the result could not be displayed.
surfacedError ==
  \/ outcome.kind = "rejected"
  \/ display.message = DisplayFailedMessage

\* C18: the display is that of the analysis completed last.  When it ended
\* with an error shown, the score field reads 'Error', the error mark is
\* set and the visualization hidden; when it succeeded, the score field
\* holds the score of the result, the error mark is cleared and the
\* visualization shown.  Between two analyses the display does not change.
C18_DisplayReflectsLastAnalysis ==
  /\ [](Ended =>
          IF surfacedError
          THEN /\ display.score.kind = "error"
               /\ display.errorClass
               /\ display.face = "none"
          ELSE /\ display.score = [kind |-> "percent",
                                   value |-> outcome.result.score]
               /\ ~display.errorClass
               /\ display.face = "block")
  /\ [][display' # display => (pc # "finally" /\ pc' = "finally")]_vars

\* A result of the classifier on display.
C18_Witness ==
  /\ Ended
  /\ outcome.kind = "resolved"
  /\ outcome.from = "external"
  /\ display.score = [kind |-> "percent", value |-> outcome.result.score]
  /\ ~display.errorClass
  /\ display.face = "block"

\* A result that could not be displayed.
C18_WitnessDisplayFailed ==
  /\ Ended
  /\ outcome.kind = "resolved"
  /\ display = showErrorResult(DisplayFailedMessage)

\* How the attempt at the external classifier has come to nothing.
NoUsableResult ==
  {"notConfigured", "fetchRejected", "notOk", "bodyFailed", "parserNull",
   "parserThrew"}

\* C19: the local analysis is entered only from the attempt at the external
\* classifier, when that attempt has ended with no usable result; and once
\* the classifier has given a usable result the request ends with that
\* result, the local analysis never being entered.
C19_ExternalFirst ==
  /\ [][(pc # "local" /\ pc' = "local") =>
          /\ pc \in {"idle", "fetching", "reading"}
          /\ backend' \in NoUsableResult]_vars
  /\ [](pc = "local" => backend \in NoUsableResult)
  /\ [](outcome.from = "local" => backend \in NoUsableResult)
  /\ [](backend = "usable" =>
          /\ Ended
          /\ failed = {} /\ ~escaped
          /\ outcome = Resolved(externalMethod(body).result, "external"))

\* The classifier has given a usable result for a text the local analysis
\* scores otherwise.
C19_Witness ==
  /\ Ended
  /\ backend = "usable"
  /\ outcome.from = "external"
  /\ outcome.result.score # localResult.score

\* What the analyzer `a` leaves in the list of factors: its own factors,
\* or its placeholder when it threw.
contribution(a) ==
  IF a \in failed THEN <<unavailableFactor[a]>> ELSE factorsOf(a)

\* The factor of the length adjustment, when one is applied.
lengthFactors ==
  IF bonus = 15 THEN <<shortFactor>>
  ELSE IF bonus = 10 THEN <<longFactor>>
  ELSE <<>>

\* C20: the factors of a local result are those of the language, the
\* statistical, the semantic and the readability analyzer in that order,
\* the placeholder of an analyzer that threw standing where its factors
\* would, and the factor of the length adjustment, when there is one, is
\* the last of the list.
C20_FactorsInOrder ==
  EndedLocal =>
    LET inOrder == contribution("language") \o contribution("statistical")
                   \o contribution("semantic") \o contribution("readability")
    IN  inOrder \o lengthFactors # <<>> =>
          outcome.result.factors = inOrder \o lengthFactors

\* A long text whose statistical analyzer threw, the others having found
\* something: the placeholder stands after the factors of the language
\* analyzer and the factor of long content is the last.
C20_Witness ==
  /\ EndedLocal
  /\ failed = {"statistical"}
  /\ factorsOf("language") # <<>>
  /\ factorsOf("semantic") # <<>>
  /\ outcome.result.factors[Len(factorsOf("language")) + 1]
       = unavailableFactor["statistical"]
  /\ outcome.result.factors[Len(outcome.result.factors)] = longFactor

\* C21: a local result carries, for its final score, the descriptive
\* factors of the band of that score and the recommendations of that band.
C21_LocalCarriesBandFactors ==
  EndedLocal =>
    /\ outcome.result.recommendations
         = generateRecommendationsFromScore(outcome.result.score)
    /\ LET banded == generateFactorsFromScore(outcome.result.score)
       IN  \A k \in DOMAIN banded :
             countOf(outcome.result.factors, banded[k]) = 1

\* The score of the local analysis before and after the bonus of length.
clampedScore == Min(100, Max(0, sumOfScores))

finalScore == Min(100, clampedScore + bonus)

\* C22: the recommendations of a local result are those of the band of the
\* final score, the score clamped and with the bonus of length added, and
\* not those of the band of the score before the bonus.
C22_RecommendationsOfFinalScore ==
  EndedLocal =>
    /\ outcome.result.recommendations
         = generateRecommendationsFromScore(finalScore)
    /\ outcome.result.recommendations[1]
         = firstRecommendation[bandOf(finalScore)]
    /\ bandOf(clampedScore) # bandOf(finalScore) =>
         outcome.result.recommendations[1]
           # firstRecommendation[bandOf(clampedScore)]

\* The bonus has taken the score from one band to the next.
C22_Witness ==
  /\ EndedLocal
  /\ bonus > 0
  /\ bandOf(clampedScore) # bandOf(finalScore)
  /\ outcome.result.recommendations[1]
       = firstRecommendation[bandOf(clampedScore + bonus)]

\* The factors the four try/catch blocks and the length adjustment have
\* pushed, in the order they were pushed.
pushedFactors ==
  contribution("language") \o contribution("statistical")
    \o contribution("semantic") \o contribution("readability")
    \o lengthFactors

defaultFactor == Factor("Content analysis completed")

\* C23: when no factor has been pushed once the length adjustment is done,
\* the factors of the local result are the default factor alone; otherwise
\* they are the factors pushed, unchanged.  The list is never empty and the
\* default factor never stands with another factor.
C23_DefaultFactor ==
  EndedLocal =>
    /\ pushedFactors = <<>> => outcome.result.factors = <<defaultFactor>>
    /\ pushedFactors # <<>> => outcome.result.factors = pushedFactors
    /\ outcome.result.factors # <<>>
    /\ countOf(outcome.result.factors, defaultFactor) > 0 =>
         Len(outcome.result.factors) = 1

\* A text no analyzer finds anything in, neither short nor long.
C23_Witness ==
  /\ EndedLocal
  /\ pushedFactors = <<>>
  /\ outcome.result.factors = <<defaultFactor>>

\* For every text given directly, what the language analyzer counts in it:
\* the entries of aiPatterns found (a), the 3-word windows that occur more
\* than once (r), the hedging words found (h), the formal phrases found (f).
LanguageCounts ==
  {[text |-> t,
    a |-> lexiconHits(aiPatterns, toLowerCase(contentOf(t))),
    r |-> repetitivePhrases(wordsOf(contentOf(t))),
    h |-> lexiconHits(hedgingWords, toLowerCase(contentOf(t))),
    f |-> lexiconHits(formalPatterns, toLowerCase(contentOf(t)))] :
     t \in CoreTexts}

countsOf(t) == CHOOSE e \in LanguageCounts : e.text = t

\* C24: the score of the language analyzer is min(40, 8a) when a > 0, plus
\* min(35, 5r) when r > 1, plus min(25, 4h) when h > 1, plus min(20, 6f)
\* when f > 0, and its factors are one for each of these that is not zero,
\* in that order.
C24_LanguageScore ==
  LanguageAnalyzed =>
    LET c  == countsOf(request)
        ca == IF c.a > 0 THEN Min(40, 8 * c.a) ELSE 0
        cr == IF c.r > 1 THEN Min(35, 5 * c.r) ELSE 0
        ch == IF c.h > 1 THEN Min(25, 4 * c.h) ELSE 0
        cf == IF c.f > 0 THEN Min(20, 6 * c.f) ELSE 0
        fa == IF ca > 0
              THEN <<FactorN("AI-generated language patterns detected (N instances)", c.a)>>
              ELSE <<>>
        fr == IF cr > 0
              THEN <<FactorN("Repetitive language patterns found (N instances)", c.r)>>
              ELSE <<>>
        fh == IF ch > 0
              THEN <<FactorN("Hedging language detected (N instances)", c.h)>>
              ELSE <<>>
        ff == IF cf > 0
              THEN <<FactorN("Formal academic language patterns detected (N instances)", c.f)>>
              ELSE <<>>
    IN  /\ languageScore(request) = ca + cr + ch + cf
        /\ resultsOf(request)["language"].factors = fa \o fr \o fh \o ff
        /\ ~escaped =>
             SubSeq(outcome.result.factors, 1, Len(fa \o fr \o fh \o ff))
               = fa \o fr \o fh \o ff

\* Seven entries of aiPatterns, two hedging words and a formal phrase in
\* one text: 40, the cap, and 8 and 6.
C24_Witness ==
  /\ LanguageAnalyzed
  /\ ~escaped
  /\ request = <<"Dense", "Furthermore">>
  /\ countsOf(request).a = 7
  /\ countsOf(request).h = 2
  /\ countsOf(request).f = 1
  /\ languageScore(request) = 54
  /\ Len(resultsOf(request)["language"].factors) = 3

\* A single hedging word adds nothing.
C24_WitnessOneHedge ==
  /\ LanguageAnalyzed
  /\ countsOf(request).h = 1
  /\ countsOf(request).a = 0
  /\ languageScore(request) = 0

\* The readability analyzer has run on the text of the request and has not
\* thrown.
ReadabilityAnalyzed ==
  Ended /\ outcome.from = "local" /\ "readability" \notin failed

\* For every text given directly, the sentences of more than 25 words or
\* of more than 3 commas.
ComplexTable ==
  {[text  |-> t,
    count |-> LET sentences == sentencesOf(contentOf(t))
              IN  Cardinality({k \in 1..Len(sentences) :
                                 \/ wordCount(sentences[k]) > 25
                                 \/ CountChar(sentences[k], ",") > 3})] :
     t \in CoreTexts}

complexOf(t) == (CHOOSE e \in ComplexTable : e.text = t).count

\* The factors of the readability analyzer that tell of complex sentences.
complexFactors(t) ==
  SelectSeq(resultsOf(t)["readability"].factors,
            LAMBDA f : f[1] = "Complex sentence structures detected (N instances)")

\* C25: the readability analyzer counts a sentence as complex when it has
\* more than 25 words or more than 3 commas, a sentence of exactly 3 commas
\* and at most 25 words not being counted; when the count c is over 1 it
\* adds min(15, 5c) with the factor that cites c, and nothing otherwise.
C25_ComplexSentences ==
  ReadabilityAnalyzed =>
    LET c == complexOf(request)
    IN  /\ c > 1 =>
             complexFactors(request)
               = <<FactorN("Complex sentence structures detected (N instances)", c)>>
        /\ c <= 1 => complexFactors(request) = <<>>

\* The highest score of each analyzer, as C26 gives it.
highestScore ==
  [language |-> 120, statistical |-> 78, semantic |-> 78, readability |-> 53]

\* C26: whatever the text, the score of each analyzer is a whole number
\* from 0 to its maximum: 120 for the language analyzer, 78 for the
\* statistical and the semantic analyzer, 53 for the readability analyzer.
C26_AnalyzerScoresBounded ==
  (Ended /\ outcome.from = "local") =>
    \A a \in AnalyzerNames \ failed : scoreOf(a) \in 0..highestScore[a]

\* The language and the semantic analyzer at their maximum on one text.
C26_Witness ==
  /\ EndedLocal
  /\ failed = {}
  /\ request = <<"Loaded">>
  /\ scoreOf("language") = 120
  /\ scoreOf("semantic") = 78
  /\ outcome.result.score = 100

\* The statistical and the readability analyzer at their maximum.
C26_WitnessUniform ==
  /\ EndedLocal
  /\ failed = {}
  /\ request = <<"Uniform">>
  /\ scoreOf("statistical") = 78
  /\ scoreOf("readability") = 53
  /\ scoreOf("language") = 30
  /\ scoreOf("semantic") = 0

\* C27: of the result of a request and its timer, the first to settle is
\* what is displayed.  The timeout is shown only when the timer fires while
\* the backend is awaited, and a result only when the timer has not fired;
\* the backend call that ends after the timeout was shown, and the timer
\* that fires after the result was displayed, change nothing of the
\* display nor of the request in progress.
C27_FirstToSettleIsDisplayed ==
  /\ [](Ended =>
          /\ outcome.from = "timer" =>
               /\ backend = "timedOut"
               /\ display = showErrorResult(TimeoutMessage)
          /\ outcome.from # "timer" =>
               /\ backend # "timedOut"
               /\ display.message # TimeoutMessage)
  /\ [][(orphans' < orphans \/ staleTimers' < staleTimers) =>
          UNCHANGED <<pc, request, loading, display, alertShown, backend,
                      body, failed, escaped, outcome>>]_vars
  /\ [][(pc' = "finally" /\ pc # "finally") =>
          \/ outcome'.from = "timer" /\ orphans' = orphans + 1
                                      /\ staleTimers' = staleTimers
          \/ outcome'.from # "timer" /\ staleTimers' = staleTimers + 1
                                      /\ orphans' = orphans]_vars

\* The result of a request is on display while the backend call of the
\* request before, which timed out, is still to end.
C27_Witness ==
  /\ Ended
  /\ orphans > 0
  /\ staleTimers > 0
  /\ outcome.kind = "resolved"
  /\ outcome.from = "external"
  /\ display.score = [kind |-> "percent", value |-> outcome.result.score]

\* A request awaits its answer with the timer of the request before still
\* to fire.
C27_WitnessLaterRequest ==
  /\ pc = "reading"
  /\ staleTimers > 0
  /\ display.score.kind = "percent"

\* C28: the loading state is entered by the click with a valid text only,
\* no backend having been tried before; it holds as long as the request is
\* in progress, the button being disabled just then; and every request
\* that has entered it leaves it, however it ends.
C28_LoadingIsCleared ==
  /\ [](loading <=> pc # "idle")
  /\ [](backend # "none" => loading)
  /\ [][(~loading /\ loading') =>
          /\ pc = "idle"
          /\ backend = "none"
          /\ trimmedLength(request') >= 10
          /\ pc' \in {"local", "fetching"}
          /\ outcome' = NoOutcome]_vars
  /\ [][(loading /\ ~loading') => pc = "finally"]_vars
  /\ (loading ~> ~loading)

\* A request that timed out has left the loading state, its backend call
\* still going on.
C28_Witness ==
  /\ pc = "idle"
  /\ ~loading
  /\ orphans > 0
  /\ display = showErrorResult(TimeoutMessage)

\* C29: for a text of fewer than 100 characters the score of the local
\* analysis is 15 at least and the last of its factors is that of the short
\* content; so the text is never in the lowest band, whose recommendations
\* start with 'Content appears to be human-generated', and never gets the
\* default factor.
C29_ShortTextFloor ==
  (EndedLocal /\ lengthOf(request) < 100) =>
    /\ outcome.result.score >= 15
    /\ outcome.result.factors[Len(outcome.result.factors)] = shortFactor
    /\ bandOf(outcome.result.score) # "human"
    /\ outcome.result.recommendations[1] # firstRecommendation["human"]
    /\ countOf(outcome.result.factors, defaultFactor) = 0

\* A short text no analyzer finds anything in: 15, the factor of the short
\* content alone, and the recommendations of the band over 10.
C29_Witness ==
  /\ EndedLocal
  /\ request = <<"Bare">>
  /\ lengthOf(request) < 100
  /\ sumOfScores = 0
  /\ outcome.result.score = 15
  /\ outcome.result.factors = <<shortFactor>>
  /\ outcome.result.recommendations[1] = firstRecommendation["minor"]

\* What each factor of an analyzer stands for in its score: the least and
\* the most of the contribution it is pushed with.
contributionRange ==
  [language |->
     [text \in {"AI-generated language patterns detected (N instances)",
                "Repetitive language patterns found (N instances)",
                "Hedging language detected (N instances)",
                "Formal academic language patterns detected (N instances)"} |->
        CASE text = "AI-generated language patterns detected (N instances)" -> <<8, 40>>
          [] text = "Repetitive language patterns found (N instances)" -> <<10, 35>>
          [] text = "Hedging language detected (N instances)" -> <<8, 25>>
          [] OTHER -> <<6, 20>>],
   statistical |->
     [text \in {"Unusually consistent sentence lengths detected",
                "High word repetition detected (N frequently used words)",
                "Unusual punctuation patterns detected",
                "Unusually consistent paragraph lengths detected"} |->
        CASE text = "Unusually consistent sentence lengths detected" -> <<25, 25>>
          [] text = "High word repetition detected (N frequently used words)" -> <<20, 20>>
          [] text = "Unusual punctuation patterns detected" -> <<15, 15>>
          [] OTHER -> <<18, 18>>],
   semantic |->
     [text \in {"Multiple factual claims detected (N instances)",
                "High technical jargon usage detected",
                "High emotional language usage detected",
                "Overly descriptive language detected"} |->
        CASE text = "Multiple factual claims detected (N instances)" -> <<12, 25>>
          [] text = "High technical jargon usage detected" -> <<18, 18>>
          [] text = "High emotional language usage detected" -> <<10, 20>>
          [] OTHER -> <<5, 15>>],
   readability |->
     [text \in {"Complex sentence structure detected",
                "Low vocabulary diversity detected",
                "Complex sentence structures detected (N instances)"} |->
        CASE text = "Complex sentence structure detected" -> <<20, 20>>
          [] text = "Low vocabulary diversity detected" -> <<18, 18>>
          [] OTHER -> <<10, 15>>]]

\* C30: the score of an analyzer is 0 exactly when it returns no factor:
\* each of its factors is there once and stands for a contribution over 0,
\* and the score is made of the contributions of the factors returned and
\* of nothing else.
C30_ScoreZeroIffNoFactor ==
  (Ended /\ outcome.from = "local") =>
    \A a \in AnalyzerNames \ failed :
      LET fs    == factorsOf(a)
          range == contributionRange[a]
      IN  /\ scoreOf(a) = 0 <=> fs = <<>>
          /\ \A i \in DOMAIN fs : fs[i][1] \in DOMAIN range
          /\ \A i, j \in DOMAIN fs : fs[i][1] = fs[j][1] => i = j
          /\ scoreOf(a) >= sum([i \in DOMAIN fs |-> range[fs[i][1]][1]])
          /\ scoreOf(a) <= sum([i \in DOMAIN fs |-> range[fs[i][1]][2]])

\* A text in which three analyzers find nothing and return 0, and the
\* fourth returns 10 with its one factor.
C30_Witness ==
  /\ EndedLocal
  /\ failed = {}
  /\ request = <<"Commas">>
  /\ scoreOf("language") = 0 /\ factorsOf("language") = <<>>
  /\ scoreOf("statistical") = 0 /\ factorsOf("statistical") = <<>>
  /\ scoreOf("semantic") = 0 /\ factorsOf("semantic") = <<>>
  /\ scoreOf("readability") = 10 /\ Len(factorsOf("readability")) = 1

====
